---------------------------- MODULE Spec2Model ----------------------------
(***************************************************************************)
(* Model of the extraction-and-classification engine of Diigo-Management:  *)
(*   - the date resolution cascade   (datefinder.py, raindroptagger.py)    *)
(*   - the word-count cascade        (wordcountfinder.py, raindroptagger)  *)
(*   - subsection scoring/placement  (add_raindrop_to_outline.py)          *)
(*   - the update_outline run        (add_raindrop_to_outline.py)          *)
(*   - the process_articles batch    (raindroptagger.py)                   *)
(* Each part has its own specification (SpecDate, SpecWC, SpecScore, Spec, *)
(* SpecBatch) over the shared variables; a specification parks the         *)
(* variables of the other parts at Idle.                                   *)
(***************************************************************************)
EXTENDS Integers, Sequences, FiniteSets, TLC

VARIABLES
    dt,     \* date cascade: the parsed document and the resolved date
    wc,     \* word-count cascade: the fetched page and the result
    sc,     \* scoring: profiles, article signals, chosen subsections
    ol,     \* update_outline: outline lists, CSV cursor, existing_urls
    pa      \* process_articles: the batch, its cursor, results and time log

vars == <<dt, wc, sc, ol, pa>>

Idle == [phase |-> "idle"]
\* Python None for a date (a resolved date is a triple) and for a word count
None == <<>>
NoCount == -1

\* ----- small sequence helpers ---------------------------------------------
RECURSIVE SumSeq(_)
SumSeq(s) == IF s = <<>> THEN 0 ELSE Head(s) + SumSeq(Tail(s))

RECURSIVE SeqsUpTo(_, _)
\* all sequences over S of length <= n
SeqsUpTo(S, n) ==
    IF n = 0 THEN {<<>>}
    ELSE LET prev == SeqsUpTo(S, n - 1)
         IN  prev \cup {Append(s, x) : s \in {p \in prev : Len(p) = n - 1}, x \in S}

Range(s) == {s[i] : i \in 1..Len(s)}

(***************************************************************************)
(* PART 1.  Date strings and parse_date_string                             *)
(*                                                                         *)
(* A raw date string is a record [k, a, b, c]: k is the layout of the text *)
(* and a, b, c are the numbers written in it, in written order.            *)
(*   "ymd"      2024-03-05              "ymdT"    2024-03-05T10:00:00      *)
(*   "ymdTZ"    2024-03-05T10:00:00Z    "ymdTfZ"  2024-03-05T10:00:00.000Z *)
(*   "ymdToff"  2024-03-05T10:00:00+00:00                                  *)
(*   "Bdy,"     March 5, 2024           "bdy,"    Mar 5, 2024              *)
(*   "Bdy"      March 5 2024            "bdy"     Mar 5 2024               *)
(*   "dBy"      5 March 2024            "dby"     5 Mar 2024               *)
(*   "slash"    03/05/2024              "yslash"  2024/03/05               *)
(*   "pubBdy,"  Published: March 5, 2024                                   *)
(*   "embedded" free text that contains 2024-03-05                         *)
(*   "junk"     text with no date       "empty"   the empty string         *)
(* A resolved date "YYYY-MM-DD" is the triple <<y, m, d>>.                 *)
(***************************************************************************)
Raw(k, a, b, c) == [k |-> k, a |-> a, b |-> b, c |-> c]
Junk  == Raw("junk", 0, 0, 0)
Empty == Raw("empty", 0, 0, 0)

IsLeap(y) == (y % 4 = 0 /\ y % 100 # 0) \/ y % 400 = 0

DaysIn(y, m) ==
    IF m \in {4, 6, 9, 11} THEN 30
    ELSE IF m = 2 THEN (IF IsLeap(y) THEN 29 ELSE 28)
    ELSE 31

\* what datetime.strptime accepts as a calendar date
ValidDate(y, m, d) ==
    /\ y \in 1..9999
    /\ m \in 1..12
    /\ d \in 1..DaysIn(y, m)

Ymd(y, m, d) == IF ValidDate(y, m, d) THEN <<y, m, d>> ELSE None

\* datetime.strptime(s, fmt).strftime("%Y-%m-%d"), None for ValueError
StrpTime(fmt, s) ==
    CASE fmt = "%Y-%m-%d"             -> IF s.k = "ymd" THEN Ymd(s.a, s.b, s.c) ELSE None
      [] fmt = "%Y-%m-%dT%H:%M:%S"    -> IF s.k = "ymdT" THEN Ymd(s.a, s.b, s.c) ELSE None
      [] fmt = "%Y-%m-%dT%H:%M:%SZ"   -> IF s.k = "ymdTZ" THEN Ymd(s.a, s.b, s.c) ELSE None
      [] fmt = "%Y-%m-%dT%H:%M:%S.%fZ" -> IF s.k = "ymdTfZ" THEN Ymd(s.a, s.b, s.c) ELSE None
      [] fmt = "%B %d, %Y"            -> IF s.k = "Bdy," THEN Ymd(s.c, s.a, s.b) ELSE None
         \* "May" is both the full and the abbreviated month name
      [] fmt = "%b %d, %Y"            -> IF s.k = "bdy," \/ (s.k = "Bdy," /\ s.a = 5)
                                         THEN Ymd(s.c, s.a, s.b) ELSE None
      [] fmt = "%m/%d/%Y"             -> IF s.k = "slash" THEN Ymd(s.c, s.a, s.b) ELSE None
      [] fmt = "%d/%m/%Y"             -> IF s.k = "slash" THEN Ymd(s.c, s.b, s.a) ELSE None
      [] fmt = "%Y/%m/%d"             -> IF s.k = "yslash" THEN Ymd(s.a, s.b, s.c) ELSE None
      [] fmt = "%B %d %Y"             -> IF s.k = "Bdy" THEN Ymd(s.c, s.a, s.b) ELSE None
      [] fmt = "%b %d %Y"             -> IF s.k = "bdy" \/ (s.k = "Bdy" /\ s.a = 5)
                                         THEN Ymd(s.c, s.a, s.b) ELSE None
      [] fmt = "%d %B %Y"             -> IF s.k = "dBy" THEN Ymd(s.c, s.b, s.a) ELSE None
      [] fmt = "%d %b %Y"             -> IF s.k = "dby" \/ (s.k = "dBy" /\ s.b = 5)
                                         THEN Ymd(s.c, s.b, s.a) ELSE None
      [] OTHER -> None

\* the same list, the day-first slash format before the month-first one
formats_day_first ==
    << "%Y-%m-%d", "%Y-%m-%dT%H:%M:%S", "%Y-%m-%dT%H:%M:%SZ",
       "%Y-%m-%dT%H:%M:%S.%fZ", "%B %d, %Y", "%b %d, %Y", "%d/%m/%Y",
       "%m/%d/%Y", "%Y/%m/%d", "%B %d %Y", "%b %d %Y", "%d %B %Y", "%d %b %Y" >>

formats ==
    << "%Y-%m-%d", "%Y-%m-%dT%H:%M:%S", "%Y-%m-%dT%H:%M:%SZ",
       "%Y-%m-%dT%H:%M:%S.%fZ", "%B %d, %Y", "%b %d, %Y", "%m/%d/%Y",
       "%d/%m/%Y", "%Y/%m/%d", "%B %d %Y", "%b %d %Y", "%d %B %Y", "%d %b %Y" >>

\* re.search(r"(\d{4}-\d{2}-\d{2})", s): the digits as written, not validated
IsoSubstring(s) ==
    IF s.k \in {"ymd", "ymdT", "ymdTZ", "ymdTfZ", "ymdToff", "embedded"}
    THEN <<s.a, s.b, s.c>> ELSE None

RECURSIVE TryFormats(_, _)
TryFormats(fmts, s) ==
    IF fmts = <<>> THEN IsoSubstring(s)
    ELSE LET r == StrpTime(Head(fmts), s)
         IN  IF r # None THEN r ELSE TryFormats(Tail(fmts), s)

parse_date_string(s) ==
    IF s.k = "empty" THEN None ELSE TryFormats(formats, s)

(***************************************************************************)
(* PART 2.  The parsed document and the date cascade                       *)
(*                                                                         *)
(* A document is built from date-bearing elements [slot, r, r2, n, f]:     *)
(*   slot "meta"   a publication-date <meta>, content r; the sequence is   *)
(*                 in the order of meta_selectors                          *)
(*   slot "jsonld" a <script type="application/ld+json">: f = "malformed"  *)
(*                 is text json.loads rejects; otherwise one object with   *)
(*                 the field f = r, wrapped in n nested arrays             *)
(*   slot "time"   the element a time selector picks: datetime/pubdate     *)
(*                 attribute r, text r2                                    *)
(*   slot "class"  an element a date-class selector picks, text r; n = 1   *)
(*                 when the text is 100 characters or longer (the date is  *)
(*                 then a part of a longer text)                           *)
(*   slot "body"   a date-like piece r of the remaining visible text       *)
(***************************************************************************)
Elem(slot, r, r2, n, f) == [slot |-> slot, r |-> r, r2 |-> r2, n |-> n, f |-> f]

R_MetaIso  == Raw("ymdTZ", 2024, 3, 5)     \* "2024-03-05T10:00:00Z"
R_Slash    == Raw("slash", 4, 7, 2023)     \* "04/07/2023"
R_Prose    == Raw("Bdy,", 1, 9, 2022)      \* "January 9, 2022"
R_Iso      == Raw("ymd", 2021, 11, 30)     \* "2021-11-30"
R_NoDay    == Raw("ymd", 2024, 2, 30)      \* "2024-02-30", no day of the calendar

DateStrs == {R_MetaIso, R_Slash, R_Prose, Junk}

SlotRank(slot) ==
    CASE slot = "meta" -> 1 [] slot = "jsonld" -> 2 [] slot = "time" -> 3
      [] slot = "class" -> 4 [] OTHER -> 5

ElemUniverse ==
    {Elem("meta", r, Empty, 0, "") : r \in DateStrs \cup {Empty}}
    \cup {Elem("jsonld", Empty, Empty, 0, "malformed")}
    \cup {Elem("jsonld", R_Slash, Empty, n, "datePublished") : n \in {0, 1, 2}}
    \cup {Elem("jsonld", Junk, Empty, 0, "datePublished")}
    \cup {Elem("time", R_Iso, Empty, 0, ""), Elem("time", Empty, R_Prose, 0, ""),
          Elem("time", Junk, R_Slash, 0, "")}
    \cup {Elem("class", R_Slash, Empty, 0, ""), Elem("class", R_Prose, Empty, 1, ""),
          Elem("class", Junk, Empty, 0, "")}
    \cup {Elem("body", r, Empty, 0, "") : r \in {R_Iso, R_Prose, R_NoDay, Junk}}

\* a bound: the number of date-bearing elements of a document
MaxElems == 3

RECURSIVE ElemSeqs(_)
\* element sequences of length <= n, grouped by slot (the order of elements
\* matters only within a slot)
ElemSeqs(n) ==
    IF n = 0 THEN {<<>>}
    ELSE LET prev == ElemSeqs(n - 1)
             full == {p \in prev : Len(p) = n - 1}
             Next1(p) == {e \in ElemUniverse :
                            p = <<>> \/ SlotRank(e.slot) >= SlotRank(p[Len(p)].slot)}
         IN  prev \cup UNION {{Append(p, e) : e \in Next1(p)} : p \in full}

SlotOf(es, slot) == SelectSeq(es, LAMBDA e : e.slot = slot)

MakeDoc(es) ==
    [meta   |-> SlotOf(es, "meta"),
     jsonld |-> SlotOf(es, "jsonld"),
     time   |-> SlotOf(es, "time"),
     cls    |-> SlotOf(es, "class"),
     body   |-> SlotOf(es, "body")]

DateDocs == {MakeDoc(es) : es \in ElemSeqs(MaxElems)}

\* ----- strategy 1: metadata tags ------------------------------------------
RECURSIVE find_date_in_meta_tags(_)
find_date_in_meta_tags(metas) ==
    IF metas = <<>> THEN None
    ELSE LET parsed == parse_date_string(Head(metas).r)
         IN  IF parsed # None THEN parsed ELSE find_date_in_meta_tags(Tail(metas))

\* ----- strategy 2: JSON-LD ------------------------------------------------
date_fields == {"datePublished", "publishDate", "dateCreated", "uploadDate"}

\* the object of a script reached through `depth` arrays: a dict only when
\* depth = 0; anything else is "not isinstance(obj, dict)"
extract_date_from_json_object(script, depth) ==
    IF depth # 0 THEN None
    ELSE IF script.f \in date_fields THEN parse_date_string(script.r)
    ELSE None

\* data is a list: each item is looked at once, never unwrapped further
ScriptDate(script) ==
    IF script.n = 0 THEN extract_date_from_json_object(script, 0)
    ELSE extract_date_from_json_object(script, script.n - 1)

\* the same without the try: the error ends the resolution with this value
Raised == <<-1>>

RECURSIVE find_date_in_json_ld_unguarded(_)
find_date_in_json_ld_unguarded(scripts) ==
    IF scripts = <<>> THEN None
    ELSE IF Head(scripts).f = "malformed" THEN Raised
    ELSE LET date == ScriptDate(Head(scripts))
         IN  IF date # None THEN date ELSE find_date_in_json_ld_unguarded(Tail(scripts))

RECURSIVE find_date_in_json_ld(_)
\* datefinder: json.loads raising leaves the loop through the outer except
find_date_in_json_ld(scripts) ==
    IF scripts = <<>> THEN None
    ELSE IF Head(scripts).f = "malformed" THEN None
    ELSE LET date == ScriptDate(Head(scripts))
         IN  IF date # None THEN date ELSE find_date_in_json_ld(Tail(scripts))

RECURSIVE JsonLdTagger(_)
\* raindroptagger: json.loads raising skips that script only
JsonLdTagger(scripts) ==
    IF scripts = <<>> THEN None
    ELSE IF Head(scripts).f = "malformed" THEN JsonLdTagger(Tail(scripts))
    ELSE LET date == ScriptDate(Head(scripts))
         IN  IF date # None THEN date ELSE JsonLdTagger(Tail(scripts))

\* ----- strategy 3: time elements ------------------------------------------
\* <<date, tag>> of one element: the attribute first, then the text
TimeElemDate(e) ==
    LET byAttr == parse_date_string(e.r)
        byText == parse_date_string(e.r2)
    IN  IF byAttr # None THEN <<byAttr, "time_attr">>
        ELSE IF byText # None THEN <<byText, "time_text">>
        ELSE <<None, "">>

RECURSIVE TimeTags(_)
TimeTags(elems) ==
    IF elems = <<>> THEN <<None, "">>
    ELSE LET r == TimeElemDate(Head(elems))
         IN  IF r[1] # None THEN r ELSE TimeTags(Tail(elems))

find_date_in_time_tags(elems) == TimeTags(elems)[1]

\* ----- strategy 4: date-class selectors -----------------------------------
RECURSIVE find_date_in_article_tags(_)
find_date_in_article_tags(elems) ==
    IF elems = <<>> THEN None
    ELSE LET e == Head(elems)
             parsed == IF e.r.k = "empty" \/ e.n = 1 THEN None
                       ELSE parse_date_string(e.r)
         IN  IF parsed # None THEN parsed
             ELSE find_date_in_article_tags(Tail(elems))

\* ----- strategy 5: free-text patterns -------------------------------------
\* soup.get_text(): the date-like pieces of the visible text in order
VisibleText(doc) ==
    LET timeTxt == [i \in 1..Len(doc.time) |-> doc.time[i].r2]
        clsTxt  == [i \in 1..Len(doc.cls)  |-> doc.cls[i].r]
        bodyTxt == [i \in 1..Len(doc.body) |-> doc.body[i].r]
    IN  SelectSeq(timeTxt \o clsTxt \o bodyTxt, LAMBDA r : r.k # "empty")

\* what a pattern captures from a piece of text (Empty: no match)
Capture(pattern, r) ==
    CASE pattern \in {"published", "publication_date"} ->
            IF r.k = "pubBdy," /\ pattern = "published" THEN Raw("Bdy,", r.a, r.b, r.c)
            ELSE Empty
      [] pattern = "slash" -> IF r.k = "slash" THEN r ELSE Empty
      [] pattern = "iso" ->
            IF r.k \in {"ymd", "ymdT", "ymdTZ", "ymdTfZ", "ymdToff", "embedded"}
            THEN Raw("ymd", r.a, r.b, r.c) ELSE Empty
      [] pattern = "prose" ->
            IF r.k \in {"Bdy,", "bdy,", "Bdy", "bdy"} THEN r
            ELSE IF r.k = "pubBdy," THEN Raw("Bdy,", r.a, r.b, r.c)
            ELSE Empty
      [] OTHER -> Empty

patterns == <<"published", "publication_date", "slash", "iso", "prose">>
patternsTagger == <<"published", "slash", "iso", "prose">>

RECURSIVE FirstMatch(_, _)
\* re.findall(pattern, text): the matches in text order, first parseable one
FirstMatch(pattern, text) ==
    IF text = <<>> THEN None
    ELSE LET parsed == parse_date_string(Capture(pattern, Head(text)))
         IN  IF parsed # None THEN parsed ELSE FirstMatch(pattern, Tail(text))

RECURSIVE TextPatterns(_, _)
TextPatterns(pats, text) ==
    IF pats = <<>> THEN None
    ELSE LET parsed == FirstMatch(Head(pats), text)
         IN  IF parsed # None THEN parsed ELSE TextPatterns(Tail(pats), text)

find_date_in_text_patterns(doc) == TextPatterns(patterns, VisibleText(doc))

\* ----- the cascades -------------------------------------------------------
\* "a or b or c or d or e" of get_publication_date_from_url, in that order
DateCascadeReversed(doc) ==
    LET s == << find_date_in_text_patterns(doc), find_date_in_article_tags(doc.cls),
                find_date_in_time_tags(doc.time), find_date_in_json_ld(doc.jsonld),
                find_date_in_meta_tags(doc.meta) >>
        hit == {i \in 1..5 : s[i] # None}
    IN  IF hit = {} THEN None ELSE s[CHOOSE i \in hit : \A j \in hit : i <= j]

DateCascade(doc) ==
    LET byMeta == find_date_in_meta_tags(doc.meta)
        byJson == find_date_in_json_ld(doc.jsonld)
        byTime == find_date_in_time_tags(doc.time)
        byCls  == find_date_in_article_tags(doc.cls)
        byText == find_date_in_text_patterns(doc)
    IN  IF byMeta # None THEN byMeta
        ELSE IF byJson # None THEN byJson
        ELSE IF byTime # None THEN byTime
        ELSE IF byCls # None THEN byCls
        ELSE byText

\* <<date, status>> for a fetched document
get_publication_date_from_url(doc) ==
    LET date == DateCascade(doc)
    IN  IF date # None THEN <<date, "success">> ELSE <<None, "no_date_found">>

\* <<date, tag>>; the tag names the winning strategy
get_pub_date_from_soup(doc) ==
    LET byMeta == find_date_in_meta_tags(doc.meta)
        byJson == JsonLdTagger(doc.jsonld)
        byTime == TimeTags(doc.time)
        byCls  == find_date_in_article_tags(doc.cls)
        byText == TextPatterns(patternsTagger, VisibleText(doc))
    IN  IF byMeta # None THEN <<byMeta, "meta">>
        ELSE IF byJson # None THEN <<byJson, "jsonld">>
        ELSE IF byTime[1] # None THEN byTime
        ELSE IF byCls # None THEN <<byCls, "class_text">>
        ELSE IF byText # None THEN <<byText, "text_pattern">>
        ELSE <<None, "no_date_found">>

\* ----- specification of the date cascade ----------------------------------
InitDate ==
    /\ dt \in {[phase |-> "fetched", doc |-> d, by |-> "", date |-> None, status |-> ""] :
                 d \in DateDocs}
    /\ wc = Idle /\ sc = Idle /\ ol = Idle /\ pa = Idle

\* datefinder.py resolves the date of the fetched document
ResolveDatefinder ==
    /\ dt.phase = "fetched"
    /\ LET r == get_publication_date_from_url(dt.doc)
       IN  dt' = [dt EXCEPT !.phase = "done", !.by = "datefinder",
                            !.date = r[1], !.status = r[2]]
    /\ UNCHANGED <<wc, sc, ol, pa>>

\* raindroptagger.py resolves the date of the fetched document
ResolveTagger ==
    /\ dt.phase = "fetched"
    /\ LET r == get_pub_date_from_soup(dt.doc)
       IN  dt' = [dt EXCEPT !.phase = "done", !.by = "tagger",
                            !.date = r[1], !.status = r[2]]
    /\ UNCHANGED <<wc, sc, ol, pa>>

NextDate == ResolveDatefinder \/ ResolveTagger

SpecDate == InitDate /\ [][NextDate]_vars

\* the yields of the five strategies, in the documented order, as the
\* module that resolved the date computes them
StrategyYields(st) ==
    << find_date_in_meta_tags(st.doc.meta),
       IF st.by = "tagger" THEN JsonLdTagger(st.doc.jsonld)
                           ELSE find_date_in_json_ld(st.doc.jsonld),
       find_date_in_time_tags(st.doc.time),
       find_date_in_article_tags(st.doc.cls),
       IF st.by = "tagger" THEN TextPatterns(patternsTagger, VisibleText(st.doc))
                           ELSE find_date_in_text_patterns(st.doc) >>

\* C1: the resolved date is the yield of the first strategy, in the order
\* metadata, JSON-LD, time elements, date-class selectors, free text, that
\* yields a parseable date (absent when none does); a document whose first
\* publication-date meta is "2024-03-05T10:00:00Z" resolves to 2024-03-05
\* whatever the later strategies find.
C1_PriorityOrder ==
    dt.phase = "done" =>
        LET y == StrategyYields(dt)
        IN  /\ \A k \in 1..5 :
                  (y[k] # None /\ \A j \in 1..(k - 1) : y[j] = None) => dt.date = y[k]
            /\ (\A k \in 1..5 : y[k] = None) => dt.date = None
            /\ (dt.doc.meta # <<>> /\ dt.doc.meta[1].r = R_MetaIso)
                  => dt.date = <<2024, 3, 5>>

\* a resolved document whose meta tag carries 2024-03-05T10:00:00Z while a
\* later strategy would find another date
C1_Witness ==
    /\ dt.phase = "done"
    /\ dt.doc.meta # <<>> /\ dt.doc.meta[1].r = R_MetaIso
    /\ find_date_in_text_patterns(dt.doc) \notin {None, <<2024, 3, 5>>}
    /\ dt.date = <<2024, 3, 5>>

(***************************************************************************)
(* PART 3.  The fetched page and the word-count cascade                    *)
(*                                                                         *)
(* A page is a set of text items [src, words]: words is count_words of the *)
(* text, src says where the text sits:                                     *)
(*   "jsonld"   an articleBody/text/description value of a JSON-LD block   *)
(*   "jsonldBad" such a value that is no string (an object, a list)        *)
(*   "traf"     what trafilatura.extract returns for the raw text          *)
(*   "artP"     <p> text inside <article>     "artRaw"  other article text *)
(*   "artBoil"  article text inside a node the boilerplate pattern marks   *)
(*   "mainP"    <p> text inside <main>        "mainRaw" other main text    *)
(*   "bodyP"    <p> text elsewhere in <body>  "bodyRaw" other body text    *)
(*   "boilP"    <p> text inside a boilerplate-marked node of the body      *)
(*   "article", "main"  the node exists (words 0: it may hold no text)     *)
(* <article> and <main> are siblings under <body>.  The raw text           *)
(* (html_text) feeds jsonld and traf; the parsed soup feeds the rest, and  *)
(* extract_main_text_with_bs4 decomposes the boilerplate nodes of the soup *)
(* before the body_full candidate is read.                                 *)
(***************************************************************************)
Item(src, words) == [src |-> src, words |-> words]

WordsOf(src) ==
    CASE src \in {"jsonld", "traf", "artRaw", "mainP"} -> {60, 130}
      [] src = "artP"    -> {60, 130, 700}
      [] src = "artBoil" -> {130}
      [] src = "mainRaw" -> {60}
      [] src = "bodyP"   -> {60, 700, 3000}
      [] src = "bodyRaw" -> {60, 3000}
      [] src = "boilP"   -> {700, 3000}
      [] OTHER           -> {0}

Sources == {"jsonld", "jsonldBad", "traf", "artP", "artRaw", "artBoil", "mainP", "mainRaw",
            "bodyP", "bodyRaw", "boilP", "article", "main"}

ItemUniverse == UNION {{Item(src, w) : w \in WordsOf(src)} : src \in Sources}

\* a bound: the number of text items of a page
MaxItems == 3

RECURSIVE ItemSets(_)
ItemSets(n) ==
    IF n = 0 THEN {{}}
    ELSE LET prev == ItemSets(n - 1)
         IN  prev \cup UNION {{p \cup {i} : i \in ItemUniverse} : p \in prev}

Pages == ItemSets(MaxItems)

RECURSIVE SumWords(_)
SumWords(items) ==
    IF items = {} THEN 0
    ELSE LET i == CHOOSE x \in items : TRUE
         IN  i.words + SumWords(items \ {i})

In(items, srcs) == {i \in items : i.src \in srcs}
Words(items, srcs) == SumWords(In(items, srcs))

ArticleSrcs == {"article", "artP", "artRaw", "artBoil"}
MainSrcs == {"main", "mainP", "mainRaw"}
BoilSrcs == {"artBoil", "boilP"}

\* max(candidates, key=count_words) over the JSON-LD texts; normalize_text
\* of a value that is no string raises TypeError, which the outer except
\* turns into "jsonld_failed"
extract_json_ld_article_text(html) ==
    LET js == In(html, {"jsonld"})
    IN  IF In(html, {"jsonldBad"}) # {} THEN <<0, "jsonld_failed">>
        ELSE IF js = {} THEN <<0, "jsonld_unavailable">>
        ELSE <<CHOOSE w \in {i.words : i \in js} : \A i \in js : i.words <= w, "jsonld">>

extract_main_text_with_trafilatura(html) ==
    LET w == Words(html, {"traf"})
    IN  IF w > 0 THEN <<w, "trafilatura">> ELSE <<0, "trafilatura_failed">>

\* the soup after the decompose() calls: boilerplate text is gone, the
\* article node stays
Decomposed(soup) ==
    (soup \ In(soup, BoilSrcs))
    \cup (IF In(soup, {"artBoil"}) # {} THEN {Item("article", 0)} ELSE {})

\* <<words, method>> of the stripped soup
extract_main_text_with_bs4(soup) ==
    LET clean == Decomposed(soup)
    IN  IF In(clean, ArticleSrcs) # {} THEN <<Words(clean, ArticleSrcs), "article_tag">>
        ELSE IF In(clean, MainSrcs) # {} THEN <<Words(clean, MainSrcs), "main_tag">>
        ELSE <<SumWords(clean \ In(clean, {"jsonld", "traf"})), "body_fallback">>

\* the (word count, method) pairs in the order the code appends them; a
\* candidate is appended only when its text is non-empty
Candidates(html, soup) ==
    LET jsonld == extract_json_ld_article_text(html)
        tr     == extract_main_text_with_trafilatura(html)
        art    == In(soup, ArticleSrcs) # {}
        main   == In(soup, MainSrcs) # {}
        bs4    == extract_main_text_with_bs4(soup)
        after  == Decomposed(soup)
        all == << jsonld, tr,
                  <<IF art THEN Words(soup, {"artP"}) ELSE 0, "article_p">>,
                  <<IF art THEN Words(soup, ArticleSrcs) ELSE 0, "article_tag">>,
                  <<IF main THEN Words(soup, {"mainP"}) ELSE 0, "main_p">>,
                  <<Words(soup, {"artP", "mainP", "bodyP", "boilP"}), "all_p">>,
                  bs4,
                  <<SumWords(after \ In(after, {"jsonld", "traf"})), "body_full">> >>
    IN  SelectSeq(all, LAMBDA c : c[1] > 0)

\* wc_by_method = {method: wc for wc, method in scored}: the last entry of
\* a method wins
wc_by_method(scored, method) ==
    LET idx == {i \in 1..Len(scored) : scored[i][2] = method}
    IN  IF idx = {} THEN 0
        ELSE scored[CHOOSE i \in idx : \A j \in idx : j <= i][1]

preferred_reversed == <<"article_tag", "trafilatura", "jsonld", "main_p", "article_p">>
preferred_methods == <<"article_p", "main_p", "jsonld", "trafilatura", "article_tag">>

RECURSIVE FirstPreferred(_, _)
\* the first preferred method with at least 120 words, "" when none
FirstPreferred(methods, scored) ==
    IF methods = <<>> THEN ""
    ELSE IF wc_by_method(scored, Head(methods)) >= 120 THEN Head(methods)
    ELSE FirstPreferred(Tail(methods), scored)

non_fullpage_all(scored) == scored
non_fullpage(scored) == SelectSeq(scored, LAMBDA c : c[2] \notin {"all_p", "body_full"})

\* max(seq, key=count): the first entry with the largest count
MaxFirst(seq) ==
    seq[CHOOSE i \in 1..Len(seq) :
            /\ \A j \in 1..Len(seq) : seq[j][1] <= seq[i][1]
            /\ \A j \in 1..(i - 1) : seq[j][1] < seq[i][1]]

RECURSIVE InsertDesc(_, _)
InsertDesc(sorted, c) ==
    IF sorted = <<>> THEN <<c>>
    ELSE IF Head(sorted)[1] >= c[1] THEN <<Head(sorted)>> \o InsertDesc(Tail(sorted), c)
    ELSE <<c>> \o sorted

RECURSIVE SortedDescLastFirst(_)
\* the same order of counts, the later of two equal entries first
SortedDescLastFirst(seq) ==
    IF seq = <<>> THEN <<>>
    ELSE LET m == CHOOSE i \in 1..Len(seq) :
                     /\ \A j \in 1..Len(seq) : seq[j][1] <= seq[i][1]
                     /\ \A j \in (i + 1)..Len(seq) : seq[j][1] < seq[i][1]
         IN  <<seq[m]>> \o SortedDescLastFirst(SubSeq(seq, 1, m - 1) \o SubSeq(seq, m + 1, Len(seq)))

RECURSIVE SortedDesc(_)
\* sorted(scored, key=count, reverse=True): stable
SortedDesc(seq) ==
    IF seq = <<>> THEN <<>>
    ELSE InsertDesc(SortedDesc(SubSeq(seq, 1, Len(seq) - 1)), seq[Len(seq)])

\* ranked[0][0] > int(ranked[1][0] * 1.6) and (ranked[0][0] - ranked[1][0]) > 500
\* int(x * 1.6) is the floor of 16x/10 (the double 1.6 lies just above 1.6,
\* and no product of a count below 2^50 rounds across an integer)
RatioTest(top, runner) == top > (runner * 16) \div 10

DemoteTopLoose(top, runner) ==
    top >= (runner * 16) \div 10 /\ (top - runner) >= 500

DemoteTop(top, runner) ==
    RatioTest(top, runner) /\ (top - runner) > 500

\* if not scored: return None, "no_text_found", "no_candidate_text"
ZeroWordsSuccess == <<0, "success", "no_candidate_text">>
NoTextFound == <<NoCount, "no_text_found", "no_candidate_text">>

\* <<count, status, method>> from the scored candidates
SelectWordCount(scored) ==
    IF scored = <<>> THEN NoTextFound
    ELSE LET pref == FirstPreferred(preferred_methods, scored)
             nonfull == non_fullpage(scored)
             ranked == SortedDesc(scored)
         IN  IF pref # "" THEN <<wc_by_method(scored, pref), "success", pref>>
             ELSE IF nonfull # <<>>
                  THEN <<MaxFirst(nonfull)[1], "success", MaxFirst(nonfull)[2]>>
             ELSE IF Len(ranked) >= 2 /\ DemoteTop(ranked[1][1], ranked[2][1])
                  THEN <<ranked[2][1], "success", ranked[2][2]>>
             ELSE <<ranked[1][1], "success", ranked[1][2]>>

get_wordcount_from_html(html, soup) == SelectWordCount(Candidates(html, soup))
get_article_word_count(html, soup) == SelectWordCount(Candidates(html, soup))

\* ----- specification of the word-count cascade ----------------------------
InitWC ==
    /\ wc \in {[phase |-> "fetched", html |-> p, soup |-> p, by |-> "",
                count |-> NoCount, status |-> "", method |-> "",
                first |-> <<NoCount, "", "">>] : p \in Pages}
    /\ dt = Idle /\ sc = Idle /\ ol = Idle /\ pa = Idle

\* raindroptagger.py counts the words of the fetched page
CountTagger ==
    /\ wc.phase = "fetched"
    /\ LET r == get_wordcount_from_html(wc.html, wc.soup)
       IN  wc' = [wc EXCEPT !.phase = "done", !.by = "tagger",
                            !.soup = Decomposed(wc.soup),
                            !.count = r[1], !.status = r[2], !.method = r[3]]
    /\ UNCHANGED <<dt, sc, ol, pa>>

\* wordcountfinder.py counts the words of the fetched page
CountFinder ==
    /\ wc.phase = "fetched"
    /\ LET r == get_article_word_count(wc.html, wc.soup)
       IN  wc' = [wc EXCEPT !.phase = "done", !.by = "finder",
                            !.soup = Decomposed(wc.soup),
                            !.count = r[1], !.status = r[2], !.method = r[3]]
    /\ UNCHANGED <<dt, sc, ol, pa>>

\* get_wordcount_from_html is applied once more to the raw text and the
\* parsed document of the first application; wc.first keeps the first result
CountAgain ==
    /\ wc.phase = "done" /\ wc.by = "tagger"
    /\ \E r \in {get_wordcount_from_html(wc.html, wc.soup)} :
          wc' = [wc EXCEPT !.phase = "again",
                           !.first = <<wc.count, wc.status, wc.method>>,
                           !.soup = Decomposed(wc.soup),
                           !.count = r[1], !.status = r[2], !.method = r[3]]
    /\ UNCHANGED <<dt, sc, ol, pa>>

NextWC == CountTagger \/ CountFinder \/ CountAgain

SpecWC == InitWC /\ [][NextWC]_vars

\* the scored candidates of the page as it was fetched
ScoredOfPage == Candidates(wc.html, wc.html)
Reaches(scored, m) == \E i \in 1..Len(scored) : scored[i][2] = m /\ scored[i][1] >= 120
IsCandidate(scored, count, method) ==
    \E i \in 1..Len(scored) : scored[i] = <<count, method>>

\* C2: when one of article_p, main_p, jsonld, trafilatura, article_tag has
\* a candidate of at least 120 words, the result is a candidate of the
\* first such method in that order, with status success, whatever the
\* counts of the other candidates are.
C2_HighPrecisionFirst ==
    wc.phase = "done" =>
        LET scored == ScoredOfPage
            hits == {k \in 1..5 : Reaches(scored, preferred_methods[k])}
        IN  hits # {} =>
              LET first == preferred_methods[CHOOSE k \in hits : \A j \in hits : k <= j]
              IN  /\ wc.status = "success"
                  /\ wc.method = first
                  /\ wc.count >= 120
                  /\ IsCandidate(scored, wc.count, first)

\* article_p reaches 120 words, a full-page candidate is larger, and the
\* article_p count is what is reported
C2_Witness ==
    /\ wc.phase = "done"
    /\ wc.method = "article_p" /\ wc.count = 700
    /\ IsCandidate(ScoredOfPage, 3700, "body_full")

FullPageOnly(scored) ==
    /\ scored # <<>>
    /\ \A i \in 1..Len(scored) : scored[i][2] \in {"all_p", "body_full"}

\* a bound: the counts over which the ratio test is compared with 1.6
MaxCount == 40

\* C3: when only all_p and body_full have a positive count, the runner-up
\* of the descending ranking is returned iff the top count is more than 1.6
\* times the runner-up and more than 500 words above it, otherwise the top;
\* the code's test top > int(runner * 1.6) agrees with top > 1.6 * runner.
C3_Demotion ==
    (wc.phase = "done" /\ FullPageOnly(ScoredOfPage)) =>
        LET scored == ScoredOfPage
            counts == {scored[i][1] : i \in 1..Len(scored)}
            top == CHOOSE c \in counts : \A d \in counts : d <= c
            runner == CHOOSE c \in counts : \A d \in counts : c <= d
            demote == Len(scored) = 2 /\ 10 * top > 16 * runner /\ top - runner > 500
        IN  /\ wc.status = "success"
            /\ wc.count = IF demote THEN runner ELSE top
            /\ IsCandidate(scored, wc.count, wc.method)
            /\ \A t \in 1..MaxCount, r \in 1..MaxCount :
                  RatioTest(t, r) <=> (10 * t > 16 * r)
            /\ \A r \in 1..MaxCount :
                  DemoteTop(r + 501, r) /\ ~DemoteTop(r + 500, r)

\* only full-page candidates, the top is demoted and the runner-up reported
C3_Witness ==
    /\ wc.phase = "done"
    /\ FullPageOnly(ScoredOfPage)
    /\ Len(ScoredOfPage) = 2
    /\ IsCandidate(ScoredOfPage, 3060, "body_full")
    /\ wc.count = 60 /\ wc.method = "all_p"

\* C4: when no high-precision method reaches 120 words and some candidate
\* other than all_p and body_full is positive, the result is the largest
\* count among those candidates with its method; all_p and body_full do not
\* influence it.
C4_NonFullPageMax ==
    wc.phase = "done" =>
        LET scored == ScoredOfPage
            nonfull == {i \in 1..Len(scored) : scored[i][2] \notin {"all_p", "body_full"}}
        IN  ((\A k \in 1..5 : wc_by_method(scored, preferred_methods[k]) < 120)
             /\ nonfull # {}) =>
                /\ wc.status = "success"
                /\ \A i \in nonfull : scored[i][1] <= wc.count
                /\ \E i \in nonfull : scored[i] = <<wc.count, wc.method>>

\* no method reaches 120 words, a non-full-page candidate is reported while
\* a full-page candidate is larger
C4_Witness ==
    /\ wc.phase = "done"
    /\ \A k \in 1..5 : ~Reaches(ScoredOfPage, preferred_methods[k])
    /\ wc.method \notin {"all_p", "body_full"}
    /\ wc.status = "success"
    /\ \E i \in 1..Len(ScoredOfPage) :
          ScoredOfPage[i][2] \in {"all_p", "body_full"} /\ ScoredOfPage[i][1] > wc.count

(***************************************************************************)
(* PART 4.  Subsection scoring and placement                               *)
(*                                                                         *)
(* Tokens are what tokenize returns.  An article's signals are the token   *)
(* sets of its text fields: `text` (title, note, excerpt and the fetched   *)
(* title, description, keywords, headings), `tags`, and `body`.            *)
(* combined_text() joins the text fields and the tags, so                  *)
(* main_tokens = text \cup tags.                                           *)
(*                                                                         *)
(* A score is a Python float.  The first six terms of the sum are          *)
(* multiples of 0.5 and are exact; 0.6 * title_cooccur and the last        *)
(* addition round.  A float score is kept as the integer                   *)
(*     1000 * (ten times the decimal value) - (1 if the float is below it) *)
(* and on these integers <, = and 100 * score >= 88 * top_score agree with *)
(* the float <, == and score >= top_score * 0.88 for every sum of the      *)
(* ranges FloatLow covers.                                                 *)
(***************************************************************************)
Tokens == {"llm", "tool", "jazz"}

\* SECTION_HINTS restricted to Tokens; a section without an entry has none
SECTION_HINTS(section_id) ==
    CASE section_id = "s1" -> {"llm"}
      [] section_id = "s2" -> {"tool"}
      [] OTHER -> {}

Profile(section_id, summary_tokens, title_tokens) ==
    [section_id |-> section_id, summary_tokens |-> summary_tokens,
     title_tokens |-> title_tokens]

NoTitles == [t \in Tokens |-> 0]

\* the subsection profiles a taxonomy is built from (build_profiles)
ProfileKinds ==
    { Profile("s1", {"llm"}, NoTitles),
      Profile("s2", {"tool", "jazz"}, [NoTitles EXCEPT !["jazz"] = 5]),
      Profile("s9", {}, [NoTitles EXCEPT !["llm"] = 2, !["tool"] = 1]) }

\* bounds: subsections of the taxonomy, token occurrences of an article,
\* and the largest max_sections
NumProfiles == 3
MaxTok == 3
MaxSections == 2

ProfileLists == {s \in SeqsUpTo(ProfileKinds, NumProfiles) : Len(s) = NumProfiles}

FieldTokens == {"text", "tags", "body"} \X Tokens

RECURSIVE PairSets(_)
PairSets(n) ==
    IF n = 0 THEN {{}}
    ELSE LET prev == PairSets(n - 1)
         IN  prev \cup UNION {{p \cup {x} : x \in FieldTokens} : p \in prev}

MakeSignals(pairs) ==
    [text |-> {x[2] : x \in {y \in pairs : y[1] = "text"}},
     tags |-> {x[2] : x \in {y \in pairs : y[1] = "tags"}},
     body |-> {x[2] : x \in {y \in pairs : y[1] = "body"}}]

SignalSets == {MakeSignals(ps) : ps \in PairSets(MaxTok)}

Min(a, b) == IF a <= b THEN a ELSE b

\* Counter.get(t, 0)
Get(counter, t) == IF t \in DOMAIN counter THEN counter[t] ELSE 0

RECURSIVE SumOver(_, _)
\* sum of f[t] over the set S
SumOver(f, S) ==
    IF S = {} THEN 0
    ELSE LET t == CHOOSE x \in S : TRUE
         IN  f[t] + SumOver(f, S \ {t})

\* IEEE-754 double rounding of x + 0.6 * g, x = X2 / 2, for X2 < 120 and
\* g < 16: the float is the double nearest the decimal value x + 0.6 * g,
\* except in these cases, where it is the next double below
\* (0.6 * 3 is 1.7999999999999998, 10.0 + 0.6 * 9 is 15.399999999999999)
FloatLow(X2, g) ==
    \/ g = 9 /\ X2 <= 21
    \/ X2 = 0 /\ g \in {3, 6, 12}
    \/ X2 = 1 /\ g = 12

\* the float x + 0.6 * g as an integer
FloatSum(X2, g) == 1000 * (5 * X2 + 6 * g) - (IF FloatLow(X2, g) THEN 1 ELSE 0)

score_subsection_uncapped(profile, main_tokens, tag_tokens, body_tokens) ==
    LET section_hints == SECTION_HINTS(profile.section_id)
    IN  FloatSum(10 * Cardinality(tag_tokens \cap profile.summary_tokens)
                 + 6 * Cardinality(main_tokens \cap profile.summary_tokens)
                 + 8 * Cardinality(tag_tokens \cap section_hints)
                 + 6 * Cardinality(main_tokens \cap section_hints)
                 + 5 * Cardinality(body_tokens \cap section_hints)
                 + 3 * Cardinality(body_tokens \cap profile.summary_tokens),
                 SumOver([t \in main_tokens |-> Get(profile.title_tokens, t)],
                         main_tokens))

score_subsection(profile, main_tokens, tag_tokens, body_tokens) ==
    LET section_hints == SECTION_HINTS(profile.section_id)
        heading_overlap_main == Cardinality(main_tokens \cap profile.summary_tokens)
        heading_overlap_tags == Cardinality(tag_tokens \cap profile.summary_tokens)
        hint_overlap_main == Cardinality(main_tokens \cap section_hints)
        hint_overlap_tags == Cardinality(tag_tokens \cap section_hints)
        hint_overlap_body == Cardinality(body_tokens \cap section_hints)
        title_cooccur == SumOver([t \in main_tokens |->
                                     Min(Get(profile.title_tokens, t), 3)],
                                 main_tokens)
        body_heading_overlap == Cardinality(body_tokens \cap profile.summary_tokens)
    IN  \* the weights 5.0, 3.0, 4.0, 3.0, 2.5, 1.5 in halves
        FloatSum(10 * heading_overlap_tags
                 + 6 * heading_overlap_main
                 + 8 * hint_overlap_tags
                 + 6 * hint_overlap_main
                 + 5 * hint_overlap_body
                 + 3 * body_heading_overlap,
                 title_cooccur)

\* score >= top_score * 0.88
InBandWide(score, top_score) == 100 * score >= 80 * top_score
InBand(score, top_score) == 100 * score >= 88 * top_score

RECURSIVE TakeBandNoLimit(_, _, _, _)
TakeBandNoLimit(rest, top_score, chosen, max_sections) ==
    IF rest = <<>> THEN chosen
    ELSE IF InBand(Head(rest)[1], top_score)
         THEN TakeBandNoLimit(Tail(rest), top_score, Append(chosen, Head(rest)[2]),
                              max_sections)
    ELSE TakeBandNoLimit(Tail(rest), top_score, chosen, max_sections)

RECURSIVE TakeBand(_, _, _, _)
\* the loop over scored[1:]
TakeBand(rest, top_score, chosen, max_sections) ==
    IF rest = <<>> THEN chosen
    ELSE IF Len(chosen) >= max_sections THEN chosen
    ELSE IF InBand(Head(rest)[1], top_score)
         THEN TakeBand(Tail(rest), top_score, Append(chosen, Head(rest)[2]), max_sections)
    ELSE TakeBand(Tail(rest), top_score, chosen, max_sections)

\* scored = [(score, profile) ...] in profile order, profiles by index
Scored(profiles, signals) ==
    [i \in 1..Len(profiles) |->
        <<score_subsection(profiles[i], signals.text \cup signals.tags,
                           signals.tags, signals.body), i>>]

ZeroSignalAll(profiles) == [i \in 1..Len(profiles) |-> i]
ZeroSignal(profiles) == IF profiles # <<>> THEN <<1>> ELSE <<>>

\* the indexes of the chosen profiles, in selection order
best_subsections(profiles, signals, max_sections) ==
    LET main_tokens == signals.text \cup signals.tags
        tag_tokens == signals.tags
        body_tokens == signals.body
        scored == SortedDesc(Scored(profiles, signals))
    IN  IF main_tokens = {} /\ tag_tokens = {} /\ body_tokens = {}
        THEN ZeroSignal(profiles)
        ELSE IF scored = <<>> THEN <<>>
        ELSE LET top_score == scored[1][1]
             IN  IF top_score <= 0 THEN <<scored[1][2]>>
                 ELSE IF max_sections > 1
                      THEN TakeBand(Tail(scored), top_score, <<scored[1][2]>>, max_sections)
                 ELSE <<scored[1][2]>>

\* ----- specification of scoring and placement -----------------------------
InitScore ==
    /\ sc \in {[phase |-> "ready", profiles |-> ps, signals |-> sg, max_sections |-> n,
                scores |-> <<>>, chosen |-> <<>>] :
                 ps \in ProfileLists, sg \in SignalSets, n \in 1..MaxSections}
    /\ dt = Idle /\ wc = Idle /\ ol = Idle /\ pa = Idle

\* best_subsections places the article
Place ==
    /\ sc.phase = "ready"
    /\ sc' = [sc EXCEPT !.phase = "placed",
                        !.scores = [i \in 1..Len(sc.profiles) |->
                                       Scored(sc.profiles, sc.signals)[i][1]],
                        !.chosen = best_subsections(sc.profiles, sc.signals,
                                                    sc.max_sections)]
    /\ UNCHANGED <<dt, wc, ol, pa>>

\* score_subsection applied to the three token sets as they are given
\* (text as the topic set, not joined with the tags)
ScoreTriple ==
    /\ sc.phase = "ready"
    /\ sc' = [sc EXCEPT !.phase = "scored",
                        !.scores = [i \in 1..Len(sc.profiles) |->
                                       score_subsection(sc.profiles[i], sc.signals.text,
                                                        sc.signals.tags, sc.signals.body)]]
    /\ UNCHANGED <<dt, wc, ol, pa>>

NextScore == Place \/ ScoreTriple

SpecScore == InitScore /\ [][NextScore]_vars

\* ten times the decimal value a float score stands for
Tenths(score) == (score + 999) \div 1000

\* C5: for every profile and every triple of token sets the score is
\* 5|tags n summary| + 3|topic n summary| + 4|tags n hints| + 3|topic n hints|
\* + 2.5|body n hints| + 1.5|body n summary| + 0.6 * sum of min(title_hist[t], 3)
\* over the topic tokens t: the float is that value or the next double below it.
C5_ScoreFormula ==
    sc.phase \in {"placed", "scored"} =>
        \A i \in 1..Len(sc.profiles) :
            LET p == sc.profiles[i]
                topic == IF sc.phase = "placed" THEN sc.signals.text \cup sc.signals.tags
                         ELSE sc.signals.text
                tags == sc.signals.tags
                body == sc.signals.body
                hints == SECTION_HINTS(p.section_id)
                capped == [t \in Tokens |->
                              IF p.title_tokens[t] < 3 THEN p.title_tokens[t] ELSE 3]
                value == 50 * Cardinality(tags \cap p.summary_tokens)
                         + 30 * Cardinality(topic \cap p.summary_tokens)
                         + 40 * Cardinality(tags \cap hints)
                         + 30 * Cardinality(topic \cap hints)
                         + 25 * Cardinality(body \cap hints)
                         + 15 * Cardinality(body \cap p.summary_tokens)
                         + 6 * SumOver(capped, topic)
            IN  /\ Tenths(sc.scores[i]) = value
                /\ sc.scores[i] \in {1000 * value - 1, 1000 * value}

\* a score in which every term of the formula, and the cap, takes part
C5_Witness ==
    /\ sc.phase = "scored"
    /\ \E i \in 1..Len(sc.profiles) :
          /\ sc.profiles[i].title_tokens["jazz"] = 5
          /\ "jazz" \in sc.signals.text
          /\ "tool" \in sc.signals.tags
          /\ "tool" \in sc.signals.body
          /\ Tenths(sc.scores[i]) = 30 + 6 * 3 + 50 + 40 + 25 + 15

TopScore == CHOOSE m \in Range(sc.scores) : \A x \in Range(sc.scores) : x <= m

\* C6: with a top score > 0 and max_sections > 1 the selection is the
\* top-scoring subsection followed, in descending score order, by those
\* scoring at least 0.88 of the top, up to max_sections in total; none below
\* 0.88 of the top is ever selected.
C6_TieBreakBand ==
    (sc.phase = "placed" /\ TopScore > 0 /\ sc.max_sections > 1) =>
        LET ch == sc.chosen
            picked == Range(ch)
        IN  /\ Len(ch) >= 1 /\ sc.scores[ch[1]] = TopScore
            /\ Len(ch) <= sc.max_sections
            /\ \A k \in 1..Len(ch) : 100 * sc.scores[ch[k]] >= 88 * TopScore
            /\ \A k \in 1..(Len(ch) - 1) : sc.scores[ch[k]] >= sc.scores[ch[k + 1]]
            /\ \A i \in 1..Len(sc.profiles) :
                  i \notin picked =>
                     /\ \A k \in 1..Len(ch) : sc.scores[i] <= sc.scores[ch[k]]
                     /\ (Len(ch) < sc.max_sections => 100 * sc.scores[i] < 88 * TopScore)

\* two subsections are selected and a third, scoring above 0 but below 0.88
\* of the top, is left out
C6_Witness ==
    /\ sc.phase = "placed" /\ sc.max_sections = 2 /\ Len(sc.chosen) = 2
    /\ \E i \in 1..Len(sc.profiles) :
          /\ i \notin Range(sc.chosen)
          /\ sc.scores[i] > 0
          /\ 100 * sc.scores[i] < 88 * TopScore

\* C7 as stated: exactly max_sections subsections are chosen for every article.
C7_ExactlyMaxSections ==
    sc.phase = "placed" => Len(sc.chosen) = sc.max_sections

\* C7 as amended: at least one and at most max_sections distinct
\* subsections are chosen: the top-scoring one always, the others only
\* within the tie-break band.
C7_AtMostMaxSections ==
    sc.phase = "placed" =>
        LET ch == sc.chosen
        IN  /\ 1 <= Len(ch) /\ Len(ch) <= sc.max_sections
            /\ \A k, l \in 1..Len(ch) : k # l => ch[k] # ch[l]
            /\ sc.scores[ch[1]] = TopScore
            /\ \A k \in 2..Len(ch) : 100 * sc.scores[ch[k]] >= 88 * TopScore

\* max_sections is 2, two other subsections score within the band, and
\* only two subsections are chosen
C7_Witness ==
    /\ sc.phase = "placed" /\ sc.max_sections = 2 /\ Len(sc.chosen) = 2
    /\ TopScore > 0
    /\ \A i \in 1..Len(sc.profiles) : 100 * sc.scores[i] >= 88 * TopScore

\* C8: an article with an uninformative score goes to exactly one
\* subsection whatever max_sections is: with empty topic, tag and body
\* token sets to the first profile, with a top score <= 0 to the top-ranked
\* subsection only.
C8_Uninformative ==
    sc.phase = "placed" =>
        LET empty == sc.signals.text = {} /\ sc.signals.tags = {} /\ sc.signals.body = {}
            firstTop == CHOOSE i \in 1..Len(sc.profiles) :
                            /\ sc.scores[i] = TopScore
                            /\ \A j \in 1..(i - 1) : sc.scores[j] < TopScore
        IN  /\ empty => sc.chosen = <<1>>
            /\ TopScore <= 0 => sc.chosen = <<firstTop>>

\* an article with tokens that match nothing, placed once although
\* max_sections allows more
C8_Witness ==
    /\ sc.phase = "placed" /\ sc.max_sections > 1
    /\ sc.signals.body # {}
    /\ TopScore = 0
    /\ sc.chosen = <<1>>

\* an article without any token, placed in the first profile
C8_WitnessEmpty ==
    /\ sc.phase = "placed" /\ sc.max_sections > 1
    /\ sc.signals = [text |-> {}, tags |-> {}, body |-> {}]
    /\ sc.chosen = <<1>>

(***************************************************************************)
(* PART 5.  The update_outline run                                         *)
(*                                                                         *)
(* The outline has the subsections OutlineSubs, each with its article list *)
(* (ul.arts).  A list entry (li) is [href, title, date, wordcount, xr]:    *)
(* the link, the words of its text, the text of the date badge (Empty when *)
(* the entry has no badge), the word-count badge (NoCount for none) and    *)
(* the subsections the cross-reference names (<<>> for none).              *)
(* A text is the set of its words; a URL text is [u, pad], pad telling     *)
(* whether white space surrounds it.  A CSV cell pandas read as NaN is     *)
(* NaNText, NaNUrl, NaNNote, NaNDate or, for a number, NoCount.  A row     *)
(* also carries `page`: what the web answers when its URL is fetched.      *)
(***************************************************************************)
Url(u, pad) == [u |-> u, pad |-> pad]

\* str.strip()
strip(url) == [url EXCEPT !.pad = FALSE]

NaNText == {"NaN"}
NaNUrl == Url("NaN", FALSE)
NaNDate == Raw("nan", 0, 0, 0)

\* a note: its words, the date written after "pub:" and the number written
\* after "wordcount:" (None, NoCount when the note has none)
Note(words, pub, wordcount) == [words |-> words, pub |-> pub, wordcount |-> wordcount]
NaNNote == Note(NaNText, None, NoCount)

\* str(value or ""): NaN is truthy and prints as "nan"
StrText(cell) == IF cell = NaNText THEN {"nan"} ELSE cell
StrUrl(cell) == IF cell = NaNUrl THEN Url("nan", FALSE) ELSE cell
StrNote(cell) == IF cell = NaNNote THEN Note({"nan"}, None, NoCount) ELSE cell

\* STOPWORDS restricted to the words of the model
STOPWORDS == {"ai"}

\* the set of the tokens of a text
tokenize(text) == text \ STOPWORDS

Entry(href, title, date, wordcount, xr) ==
    [href |-> href, title |-> title, date |-> date, wordcount |-> wordcount, xr |-> xr]

\* the subsections of the outline, each in a section of its own
OutlineSubs ==
    << [sub_id |-> "s1a", section_id |-> "s1", summary_tokens |-> {"llm"}],
       [sub_id |-> "s2a", section_id |-> "s2", summary_tokens |-> {"tool"}] >>

NumSubs == Len(OutlineSubs)

\* entries an outline holds before a run
ExistingEntries ==
    { Entry(Url("u1", TRUE), {"llm"}, Raw("ymd", 2023, 7, 4), 900, <<>>),
      Entry(Url("u4", FALSE), {"jazz", "ai"}, Empty, NoCount, <<>>) }

\* what fetch_article_signals returns
Page(fetched_title, fetched_description, fetched_keywords, fetched_headings, fetched_body, fetch_ok) ==
    [fetched_title |-> fetched_title, fetched_description |-> fetched_description,
     fetched_keywords |-> fetched_keywords, fetched_headings |-> fetched_headings,
     fetched_body |-> fetched_body, fetch_ok |-> fetch_ok]

\* sig = ArticleSignals(): nothing fetched
NoPage == Page({}, {}, {}, {}, {}, FALSE)

\* a row whose every cell is NaN, and whose URL cannot be fetched
NaNRow ==
    [title |-> NaNText, url |-> NaNUrl, tags |-> NaNText, note |-> NaNNote,
     excerpt |-> NaNText, publication_date |-> NaNDate, pub_date |-> NaNDate,
     date |-> NaNDate, created |-> NaNDate, wordcount |-> NoCount,
     word_count |-> NoCount, page |-> NoPage]

\* the rows a CSV is made of
RowKinds ==
    << \* dated by its created cell; its page is fetched
      [NaNRow EXCEPT !.title = {"llm"}, !.url = Url("u1", FALSE),
                     !.created = Raw("ymdTfZ", 2024, 3, 5),
                     !.page = Page({"llm", "ai"}, {}, {"jazz"}, {}, {"llm"}, TRUE)],
      \* the same URL written with white space around it; no date
      [NaNRow EXCEPT !.title = {"tool"}, !.url = Url("u1", TRUE), !.tags = {"llm"}],
      \* scores the same in both subsections; dated before 1900 by its note;
      \* its fetch breaks off after the description was read
      [NaNRow EXCEPT !.title = {"llm", "tool"}, !.url = Url("u2", FALSE),
                     !.note = Note({"pub", "wordcount"}, <<1899, 12, 31>>, 1200),
                     !.page = Page({}, {"jazz"}, {}, {}, {}, FALSE)],
      \* a title of white space
      [NaNRow EXCEPT !.title = {}, !.url = Url("u3", FALSE)],
      \* a URL of white space
      [NaNRow EXCEPT !.title = {"jazz"}, !.url = Url("", TRUE)],
      \* no token in any cell; a date cell that is no calendar date
      [NaNRow EXCEPT !.title = {"ai"}, !.url = Url("u3", FALSE), !.tags = {"ai"},
                     !.note = Note({"ai"}, None, NoCount), !.excerpt = {"ai"},
                     !.pub_date = Raw("embedded", 2024, 2, 30), !.word_count = 800],
      NaNRow >>

\* bounds: rows of a CSV, entries of the outline before the first run
MaxRows == 2
MaxExisting == 1

\* a CSV is kept as the sequence of the indexes of its rows in RowKinds;
\* its rows are of different kinds
Csvs ==
    {csv \in SeqsUpTo(1..Len(RowKinds), MaxRows) :
        \A a, b \in 1..Len(csv) : a # b => csv[a] # csv[b]}

\* the article lists of the outlines: at most MaxExisting entries in all
Outlines ==
    {ls \in [1..NumSubs -> SeqsUpTo(ExistingEntries, MaxExisting)] :
        SumSeq([i \in 1..NumSubs |-> Len(ls[i])]) <= MaxExisting}

\* the title-token histogram of one list (Counter.update over the titles)
TitleCounter(list) ==
    LET toks == UNION {tokenize(list[k].title) : k \in 1..Len(list)}
    IN  [t \in toks |-> Cardinality({k \in 1..Len(list) : t \in tokenize(list[k].title)})]

build_profiles(lists) ==
    [i \in 1..NumSubs |->
        Profile(OutlineSubs[i].section_id, OutlineSubs[i].summary_tokens,
                TitleCounter(lists[i]))]

\* the hrefs of the entries of all lists, stripped
existing_urls(lists) ==
    UNION {{strip(lists[i][k].href) : k \in 1..Len(lists[i])} : i \in 1..NumSubs}

\* existing_urls.add(url)
AddUrlNone(urls, url) == urls
AddUrl(urls, url) == urls \cup {url}

\* fetch_article_signals: the web's answer for the row's URL
fetch_article_signals(row) == row.page

ArticleSignals(row, fetched) ==
    [title |-> StrText(row.title), tags |-> StrText(row.tags),
     note |-> StrNote(row.note).words, excerpt |-> StrText(row.excerpt),
     fetched_title |-> fetched.fetched_title,
     fetched_description |-> fetched.fetched_description,
     fetched_keywords |-> fetched.fetched_keywords,
     fetched_headings |-> fetched.fetched_headings,
     fetched_body |-> fetched.fetched_body,
     fetch_ok |-> fetched.fetch_ok]

combined_text(sig) ==
    (IF sig.fetched_title # {} THEN sig.fetched_title ELSE sig.title)
    \cup sig.tags \cup sig.note \cup sig.excerpt
    \cup sig.fetched_description \cup sig.fetched_keywords \cup sig.fetched_headings

body_text(sig) == sig.fetched_body

display_title(sig) == IF sig.title # {} THEN sig.title ELSE sig.fetched_title

\* the three token sets best_subsections computes from the signals
TokenSets(sig) ==
    [text |-> tokenize(combined_text(sig)), tags |-> tokenize(sig.tags),
     body |-> tokenize(body_text(sig))]

\* the first of the cells publication_date, pub_date, date, created that is
\* not NaN and contains \d{4}-\d{2}-\d{2}
RECURSIVE FirstDateCell(_)
FirstDateCell(cells) ==
    IF cells = <<>> THEN None
    ELSE IF Head(cells) # NaNDate /\ IsoSubstring(Head(cells)) # None
         THEN IsoSubstring(Head(cells))
    ELSE FirstDateCell(Tail(cells))

\* the text "YYYY-MM-DD" that becomes the date badge
parse_pub_date(row) ==
    LET m == StrNote(row.note).pub
        c == FirstDateCell(<<row.publication_date, row.pub_date, row.date, row.created>>)
    IN  IF m # None THEN Raw("ymd", m[1], m[2], m[3])
        ELSE IF c # None THEN Raw("ymd", c[1], c[2], c[3])
        ELSE Raw("ymd", 1900, 1, 1)

parse_wordcount(row) ==
    IF StrNote(row.note).wordcount # NoCount THEN StrNote(row.note).wordcount
    ELSE IF row.wordcount # NoCount THEN row.wordcount
    ELSE IF row.word_count # NoCount THEN row.word_count
    ELSE NoCount

create_article_li(title, url, pub_date, wordcount, cross_ref) ==
    Entry(url, title, pub_date, wordcount, cross_ref)

\* the sort key of an entry: datetime.strptime of the badge text, or
\* datetime(1900, 1, 1); as the number yyyymmdd
parse_li_date(li) ==
    LET d == StrpTime("%Y-%m-%d", li.date)
    IN  IF d # None THEN d[1] * 10000 + d[2] * 100 + d[3] ELSE 19000101

\* items.sort(key=parse_li_date, reverse=True) on every list
sort_all_subsections_by_date(lists) ==
    [i \in 1..NumSubs |->
        LET keyed == [k \in 1..Len(lists[i]) |-> <<parse_li_date(lists[i][k]), lists[i][k]>>]
            sorted == SortedDesc(keyed)
        IN  [k \in 1..Len(lists[i]) |-> sorted[k][2]]]

\* the article counts refresh_counts writes: per section, and in the header
refresh_counts(lists) ==
    [sections |-> [i \in 1..NumSubs |-> Len(lists[i])],
     total |-> SumSeq([i \in 1..NumSubs |-> Len(lists[i])])]

\* the characters of the ids of the outline
Chars(id) ==
    CASE id = "s1" -> <<"s", "1">>
      [] id = "s2" -> <<"s", "2">>
      [] id = "s1a" -> <<"s", "1", "a">>
      [] id = "s2a" -> <<"s", "2", "a">>
      [] OTHER -> <<>>

\* str.upper on one character
Upper(c) ==
    CASE c = "a" -> "A"
      [] c = "s" -> "S"
      [] OTHER -> c

\* f"§{t.section_id[1:].upper()}-{t.sub_id[-1].upper()}"
RefLabel(t) ==
    LET section == Tail(Chars(t.section_id))
        sub == Chars(t.sub_id)
    IN  <<"§">> \o [k \in 1..Len(section) |-> Upper(section[k])]
              \o <<"-", Upper(sub[Len(sub)])>>

\* the same, on every placement and naming every target
cross_ref_everywhere(i, targets) ==
    IF Len(targets) > 1
    THEN [j \in 1..Len(targets) |-> RefLabel(OutlineSubs[targets[j]])]
    ELSE <<>>

\* the cross-reference of the i-th placement: the labels of targets[1:], which
\* "→ also in " + ", ".join(refs) lists in this order
cross_ref(i, targets) ==
    IF i = 1 /\ Len(targets) > 1
    THEN [j \in 1..Len(targets) - 1 |-> RefLabel(OutlineSubs[targets[j + 1]])]
    ELSE <<>>

\* the same, the new entry put before the entries of the list
PrependToTargets(lists, targets, title, url, pub_date, wordcount) ==
    [s \in 1..NumSubs |->
        IF \E i \in 1..Len(targets) : targets[i] = s
        THEN LET i == CHOOSE j \in 1..Len(targets) : targets[j] = s
             IN  <<create_article_li(title, url, pub_date, wordcount,
                                     cross_ref(i, targets))>> \o lists[s]
        ELSE lists[s]]

\* target.ul_node.append(li) for every target
AppendToTargets(lists, targets, title, url, pub_date, wordcount) ==
    [s \in 1..NumSubs |->
        IF \E i \in 1..Len(targets) : targets[i] = s
        THEN LET i == CHOOSE j \in 1..Len(targets) : targets[j] = s
             IN  Append(lists[s],
                        create_article_li(title, url, pub_date, wordcount,
                                          cross_ref(i, targets)))
        ELSE lists[s]]

\* ----- specification of the update_outline runs --------------------------
\* update_outline up to its loop: the outline is parsed, the profiles and
\* existing_urls are built, the CSV is read
StartRun(html, csv, max_sections, fetch_urls, run) ==
    [phase |-> "loop", run |-> run, html |-> html, lists |-> html,
     profiles |-> build_profiles(html), csv |-> csv, pos |-> 1,
     existing_urls |-> existing_urls(html),
     inserted |-> 0, skipped |-> 0, fetch_ok_count |-> 0, fetch_fail_count |-> 0,
     max_sections |-> max_sections, fetch_urls |-> fetch_urls,
     counts |-> refresh_counts(html), output |-> <<>>]

Init ==
    /\ ol \in {StartRun(html, csv, n, f, 1) :
                 html \in Outlines, csv \in Csvs, n \in 1..NumSubs, f \in BOOLEAN}
    /\ dt = Idle /\ wc = Idle /\ sc = Idle /\ pa = Idle

InLoop == ol.phase = "loop" /\ ol.pos <= Len(ol.csv)

RowTitle(row) == StrText(row.title)
RowUrl(row) == strip(StrUrl(row.url))

\* if not title or not url: continue
SkipBlank ==
    /\ InLoop
    /\ LET row == RowKinds[ol.csv[ol.pos]]
       IN  /\ RowTitle(row) = {} \/ RowUrl(row).u = ""
           /\ ol' = [ol EXCEPT !.pos = @ + 1]
    /\ UNCHANGED <<dt, wc, sc, pa>>

\* if url in existing_urls: skipped += 1; continue
SkipDuplicate ==
    /\ InLoop
    /\ LET row == RowKinds[ol.csv[ol.pos]]
       IN  /\ RowTitle(row) # {} /\ RowUrl(row).u # ""
           /\ RowUrl(row) \in ol.existing_urls
           /\ ol' = [ol EXCEPT !.pos = @ + 1, !.skipped = @ + 1]
    /\ UNCHANGED <<dt, wc, sc, pa>>

\* the same, the profiles built again from the lists after the insertion
InsertRowRebuild ==
    /\ InLoop
    /\ LET row == RowKinds[ol.csv[ol.pos]]
           url == RowUrl(row)
           fetched == IF ol.fetch_urls THEN fetch_article_signals(row) ELSE NoPage
           signals == ArticleSignals(row, fetched)
           targets == best_subsections(ol.profiles, TokenSets(signals), ol.max_sections)
       IN  /\ RowTitle(row) # {} /\ url.u # ""
           /\ url \notin ol.existing_urls
           /\ IF targets = <<>>
              THEN ol' = [ol EXCEPT !.pos = @ + 1,
                             !.fetch_ok_count =
                                 IF ol.fetch_urls /\ fetched.fetch_ok THEN @ + 1 ELSE @,
                             !.fetch_fail_count =
                                 IF ol.fetch_urls /\ ~fetched.fetch_ok THEN @ + 1 ELSE @]
              ELSE ol' = [ol EXCEPT
                             !.pos = @ + 1,
                             !.fetch_ok_count =
                                 IF ol.fetch_urls /\ fetched.fetch_ok THEN @ + 1 ELSE @,
                             !.fetch_fail_count =
                                 IF ol.fetch_urls /\ ~fetched.fetch_ok THEN @ + 1 ELSE @,
                             !.lists = AppendToTargets(ol.lists, targets,
                                                       display_title(signals), url,
                                                       parse_pub_date(row),
                                                       parse_wordcount(row)),
                             !.profiles =
                                 build_profiles(AppendToTargets(ol.lists, targets,
                                                                display_title(signals), url,
                                                                parse_pub_date(row),
                                                                parse_wordcount(row))),
                             !.existing_urls = AddUrl(@, url),
                             !.inserted = @ + 1]
    /\ UNCHANGED <<dt, wc, sc, pa>>

\* the rest of the loop body: fetch, classify, append to every target
InsertRow ==
    /\ InLoop
    /\ LET row == RowKinds[ol.csv[ol.pos]]
           url == RowUrl(row)
           fetched == IF ol.fetch_urls THEN fetch_article_signals(row) ELSE NoPage
           signals == ArticleSignals(row, fetched)
           targets == best_subsections(ol.profiles, TokenSets(signals), ol.max_sections)
       IN  /\ RowTitle(row) # {} /\ url.u # ""
           /\ url \notin ol.existing_urls
           /\ IF targets = <<>>
              THEN ol' = [ol EXCEPT !.pos = @ + 1,
                             !.fetch_ok_count =
                                 IF ol.fetch_urls /\ fetched.fetch_ok THEN @ + 1 ELSE @,
                             !.fetch_fail_count =
                                 IF ol.fetch_urls /\ ~fetched.fetch_ok THEN @ + 1 ELSE @]
              ELSE ol' = [ol EXCEPT
                             !.pos = @ + 1,
                             !.fetch_ok_count =
                                 IF ol.fetch_urls /\ fetched.fetch_ok THEN @ + 1 ELSE @,
                             !.fetch_fail_count =
                                 IF ol.fetch_urls /\ ~fetched.fetch_ok THEN @ + 1 ELSE @,
                             !.lists = AppendToTargets(ol.lists, targets,
                                                       display_title(signals), url,
                                                       parse_pub_date(row),
                                                       parse_wordcount(row)),
                             !.existing_urls = AddUrl(@, url),
                             !.inserted = @ + 1]
    /\ UNCHANGED <<dt, wc, sc, pa>>

\* after the loop: the resort, the counts, and the output file
WriteOutput ==
    /\ ol.phase = "loop" /\ ol.pos > Len(ol.csv)
    /\ LET sorted == sort_all_subsections_by_date(ol.lists)
       IN  ol' = [ol EXCEPT !.phase = "written", !.lists = sorted,
                            !.counts = refresh_counts(sorted), !.output = sorted]
    /\ UNCHANGED <<dt, wc, sc, pa>>

\* the same with dry_run: no output is written
DryRun ==
    /\ ol.phase = "loop" /\ ol.pos > Len(ol.csv)
    /\ LET sorted == sort_all_subsections_by_date(ol.lists)
       IN  ol' = [ol EXCEPT !.phase = "dry", !.lists = sorted,
                            !.counts = refresh_counts(sorted)]
    /\ UNCHANGED <<dt, wc, sc, pa>>

\* update_outline is run a second time, on the output of the first run and
\* the same CSV
Rerun ==
    /\ ol.phase = "written" /\ ol.run = 1
    /\ ol' = StartRun(ol.output, ol.csv, ol.max_sections, ol.fetch_urls, ol.run + 1)
    /\ UNCHANGED <<dt, wc, sc, pa>>

Next == SkipBlank \/ SkipDuplicate \/ InsertRow \/ WriteOutput \/ DryRun \/ Rerun

Spec == Init /\ [][Next]_vars

\* the number of entries of a list that link to the URL u
EntriesFor(list, u) == Cardinality({k \in 1..Len(list) : list[k].href.u = u})

\* the URLs the lists link to
LinkedUrls(lists) ==
    UNION {{lists[i][k].href.u : k \in 1..Len(lists[i])} : i \in 1..NumSubs}

\* C9: update_outline inserts no entry for a URL that a subsection list of
\* the outline already links to (the lists in which such a URL occurs keep
\* their entries for it), and an article whose URL was inserted earlier in
\* the run is not inserted again (a URL new to the outline gets at most one
\* entry per list, at most max_sections in all, and counts once as
\* inserted); a second run on the output of the first with the same CSV
\* inserts nothing.
C9_NoDuplicateUrl ==
    ol.phase # "idle" =>
        LET new == LinkedUrls(ol.lists) \ LinkedUrls(ol.html)
        IN  /\ \A u \in LinkedUrls(ol.html) : \A i \in 1..NumSubs :
                  EntriesFor(ol.lists[i], u) = EntriesFor(ol.html[i], u)
            /\ \A u \in new :
                  /\ \A i \in 1..NumSubs : EntriesFor(ol.lists[i], u) <= 1
                  /\ SumSeq([i \in 1..NumSubs |-> EntriesFor(ol.lists[i], u)])
                        <= ol.max_sections
            /\ ol.inserted = Cardinality(new)
            /\ ol.run > 1 =>
                  /\ ol.inserted = 0
                  /\ \A i \in 1..NumSubs : Len(ol.lists[i]) = Len(ol.html[i])
                  /\ ol.phase = "written" => ol.output = ol.html

\* the second run has gone through a CSV of two rows, one of a URL the
\* outline linked to before the first run (written there with white space),
\* one of a URL the first run inserted, and has skipped both
C9_Witness ==
    /\ ol.run = 2 /\ ol.phase = "written"
    /\ Len(ol.csv) = 2 /\ ol.skipped = 2 /\ ol.inserted = 0
    /\ "u2" \in LinkedUrls(ol.lists)
    /\ \E i \in 1..NumSubs : \E k \in 1..Len(ol.lists[i]) :
          ol.lists[i][k].href = Url("u1", TRUE)

\* in one run the CSV names the same URL twice, the second time with white
\* space around it: one row is inserted, the other skipped
C9_WitnessSameRun ==
    /\ ol.run = 1 /\ ol.phase = "written"
    /\ Len(ol.csv) = 2
    /\ RowKinds[ol.csv[1]].url.u = "u1" /\ RowKinds[ol.csv[2]].url.u = "u1"
    /\ RowKinds[ol.csv[1]].url # RowKinds[ol.csv[2]].url
    /\ ol.inserted = 1 /\ ol.skipped = 1

\* an entry is dated when its badge is a calendar date other than the
\* placeholder 1900-01-01 written for an article without a date; it is
\* undated when it has no badge or the placeholder
Dated(li) ==
    /\ StrpTime("%Y-%m-%d", li.date) # None
    /\ li.date # Raw("ymd", 1900, 1, 1)

Undated(li) == li.date = Empty \/ li.date = Raw("ymd", 1900, 1, 1)

DateNumber(li) == li.date.a * 10000 + li.date.b * 100 + li.date.c

\* C10 as stated: after the resort of a run every subsection list is
\* non-increasing by publication date, and no undated entry stands before a
\* dated one, whatever dates the entries carry.
C10_SortedUndatedLast ==
    ol.phase \in {"written", "dry"} =>
        \A i \in 1..NumSubs : \A a, b \in 1..Len(ol.lists[i]) :
            a < b =>
                LET x == ol.lists[i][a]
                    y == ol.lists[i][b]
                IN  /\ (Dated(x) /\ Dated(y)) => DateNumber(x) >= DateNumber(y)
                    /\ ~(Undated(x) /\ Dated(y))

\* s is the beginning of t
IsPrefix(s, t) == Len(s) <= Len(t) /\ \A k \in 1..Len(s) : t[k] = s[k]

\* C11: during an update_outline run every step of the loop leaves every
\* subsection list as it was or appends one entry at its end, the entries
\* already there keeping their places; the lists are reordered by one step
\* only, the date resort, taken when the loop has gone through every row of
\* the CSV, and after it the lists stay as sorted.
C11_AppendOnlyThenSort ==
    [][ol.phase # "idle" =>
          \/ /\ ol'.phase = "loop"
             /\ \A i \in 1..NumSubs :
                   /\ IsPrefix(ol.lists[i], ol'.lists[i])
                   /\ Len(ol'.lists[i]) <= Len(ol.lists[i]) + 1
          \/ /\ ol.phase = "loop" /\ ol.pos > Len(ol.csv)
             /\ ol'.phase \in {"written", "dry"}
             /\ ol'.lists = sort_all_subsections_by_date(ol.lists)]_vars

\* the loop is not over, and an entry dated 2024 stands appended behind
\* the entry dated 2023 the list held before the run
C11_Witness ==
    /\ ol.phase = "loop" /\ ol.pos <= Len(ol.csv)
    /\ \E i \in 1..NumSubs :
          /\ Len(ol.html[i]) = 1 /\ Len(ol.lists[i]) = 2
          /\ ol.lists[i][1] = ol.html[i][1]
          /\ parse_li_date(ol.lists[i][1]) < parse_li_date(ol.lists[i][2])

(***************************************************************************)
(* PART 6.  The process_articles batch (raindroptagger.py)                 *)
(*                                                                         *)
(* An article is [title, url, first, retry]: the title and URL as main()   *)
(* read them (NaNText, NaNUrl for an empty CSV cell; Url("", FALSE) for a  *)
(* paragraph without hyperlink) and what the web answers to the first      *)
(* request of the URL and to a second one.  An answer is                   *)
(* [status, doc, page]: the status fetch_url_once returns and, on success, *)
(* the parsed document (as in part 2) and the page text (as in part 3).    *)
(* The run keeps a time log: <<"fetch", i>> a request for article i,       *)
(* <<"sleep", n>> time.sleep(n), <<"input", n>> input() returning after n  *)
(* seconds.                                                                *)
(***************************************************************************)
NoDoc == MakeDoc(<<>>)

Answer(status, doc, page) == [status |-> status, doc |-> doc, page |-> page]
Failed(status) == Answer(status, NoDoc, {})

\* a document with a publication-date meta tag; a page with an article
DocMeta == MakeDoc(<<Elem("meta", R_MetaIso, Empty, 0, "")>>)
PageArticle == {Item("artP", 130)}

Article(title, url, first, retry) ==
    [title |-> title, url |-> url, first |-> first, retry |-> retry]

\* the articles a batch is made of
ArticleKinds ==
    << \* fetched at once: a date and a word count
       Article({"llm"}, Url("u1", FALSE), Answer("success", DocMeta, PageArticle), Failed("error")),
       \* fetched at once: no date, no text
       Article({"tool"}, Url("u2", FALSE), Answer("success", NoDoc, {}), Failed("error")),
       \* an empty title cell; fetched at once: no date
       Article(NaNText, Url("u3", FALSE), Answer("success", NoDoc, PageArticle), Failed("error")),
       \* blocked at first, served to the second request
       Article({"jazz"}, Url("u4", FALSE), Failed("http_403"), Answer("success", DocMeta, PageArticle)),
       \* times out, then fails to connect
       Article({"llm", "tool"}, Url("u5", FALSE), Failed("timeout"), Failed("request_error")),
       \* a paragraph without hyperlink
       Article({"jazz"}, Url("", FALSE), Failed("error"), Failed("error")),
       \* an empty URL cell
       Article({"tool"}, NaNUrl, Failed("error"), Failed("error")),
       \* the response cannot be parsed
       Article({"llm"}, Url("u6", FALSE), Failed("error"), Failed("error")),
       \* an empty title cell; no connection, then a page without date
       Article(NaNText, Url("u7", FALSE), Failed("request_error"), Answer("success", NoDoc, {})) >>

\* a bound: the articles of a batch
MaxArticles == 2

\* a batch is kept as the sequence of the indexes of its articles in
\* ArticleKinds; its articles are of different kinds
Batches ==
    {b \in SeqsUpTo(1..Len(ArticleKinds), MaxArticles) :
        \A a, c \in 1..Len(b) : a # c => b[a] # b[c]}

\* delay=2.0, the --delay default
delay == 2

\* the values of --manual-wait-seconds, and the seconds an operator takes
\* to press Enter
WaitSeconds == {0, 1, 20}
OperatorSeconds == {0, 5}

NoMethod == "None"

\* the keys process_articles writes into an article
Result(pub_date, date_status, wordcount, wc_status, wc_method) ==
    [pub_date |-> pub_date, date_status |-> date_status, wordcount |-> wordcount,
     wc_status |-> wc_status, wc_method |-> wc_method]

\* an article process_articles has not written to
Untouched == Result(None, "", NoCount, "", NoMethod)

\* fetch_url_once: the web's answer to the n-th request of the article
fetch_url_once(article, n) == IF n = 1 THEN article.first ELSE article.retry

IsHttpStatus(status) == status \in {"http_403"}

should_attempt_manual_retry(fetch_status) ==
    IsHttpStatus(fetch_status) \/ fetch_status \in {"request_error", "timeout"}

\* both cascades on a fetched answer, as article.update records them
ResultOf(d, w) == Result(d[1], d[2], w[1], w[2], w[3])
Extracted(answer) ==
    ResultOf(get_pub_date_from_soup(answer.doc),
             get_wordcount_from_html(answer.page, answer.page))

\* article.update(...) that keeps the date and the word count of the
\* response that did not succeed
NotFetchedKeepsPage(status) == Result(R_MetaIso, status, 0, status, NoMethod)

\* article.update(...) for a fetch that did not succeed
NotFetched(status) == Result(None, status, NoCount, status, NoMethod)

\* "if processed < total: time.sleep(delay)" at the end of an iteration
EndOfIteration(log, processed, total) ==
    IF processed < total THEN Append(log, <<"sleep", delay>>) ELSE log

InitBatch ==
    /\ pa \in {[phase |-> "loop", articles |-> b, idx |-> 1, processed |-> 0,
                success_count |-> 0,
                out |-> [i \in 1..Len(b) |-> Untouched], log |-> <<>>,
                manual_browser_retry |-> m, isatty |-> tty, eof |-> e,
                manual_wait_seconds |-> w, retry_status |-> ""] :
                 b \in Batches, m \in BOOLEAN, tty \in BOOLEAN, e \in BOOLEAN,
                 w \in WaitSeconds}
    /\ dt = Idle /\ wc = Idle /\ sc = Idle /\ ol = Idle

InBatchLoop == pa.phase = "loop" /\ pa.idx <= Len(pa.articles)

CurrentArticle == ArticleKinds[pa.articles[pa.idx]]

\* if not url: ... continue
SkipNoUrl ==
    /\ InBatchLoop
    /\ CurrentArticle.url = Url("", FALSE)
    /\ pa' = [pa EXCEPT !.out[pa.idx] = Result(None, "no_url", NoCount, "no_url", NoMethod),
                        !.idx = @ + 1]
    /\ UNCHANGED <<dt, wc, sc, ol>>

\* the URL is NaN: url[:90] raises TypeError before the fetch
RaiseOnUrl ==
    /\ InBatchLoop
    /\ CurrentArticle.url = NaNUrl
    /\ pa' = [pa EXCEPT !.phase = "raised", !.processed = @ + 1]
    /\ UNCHANGED <<dt, wc, sc, ol>>

\* the first fetch and what follows it up to the end of the iteration, or
\* up to the wait of the manual retry
FirstFetch ==
    /\ InBatchLoop
    /\ CurrentArticle.url \notin {Url("", FALSE), NaNUrl}
    /\ \E answer \in {fetch_url_once(CurrentArticle, 1)} :
       \E rec \in {Extracted(answer)} :
       \E log \in {Append(pa.log, <<"fetch", pa.idx>>)} :
          IF answer.status = "success"
          THEN IF rec.date_status = "no_date_found" /\ CurrentArticle.title = NaNText
               \* title[:60] raises TypeError
               THEN pa' = [pa EXCEPT !.phase = "raised", !.processed = @ + 1,
                                     !.log = log, !.out[pa.idx] = rec]
               ELSE pa' = [pa EXCEPT
                              !.processed = @ + 1, !.out[pa.idx] = rec,
                              !.success_count = IF rec.wc_status = "success" THEN @ + 1 ELSE @,
                              !.log = EndOfIteration(log, pa.processed + 1, Len(pa.articles)),
                              !.idx = @ + 1]
          ELSE IF pa.manual_browser_retry /\ should_attempt_manual_retry(answer.status)
               THEN pa' = [pa EXCEPT !.phase = "manual", !.processed = @ + 1,
                                     !.log = log, !.retry_status = answer.status]
               ELSE pa' = [pa EXCEPT
                              !.processed = @ + 1,
                              !.out[pa.idx] = NotFetched(answer.status),
                              !.log = EndOfIteration(log, pa.processed + 1, Len(pa.articles)),
                              !.idx = @ + 1]
    /\ UNCHANGED <<dt, wc, sc, ol>>

\* the second fetch (proceed_with_retry) and the rest of the iteration
RetryFetch(log) ==
    LET answer == fetch_url_once(CurrentArticle, 2)
        ended == EndOfIteration(Append(log, <<"fetch", pa.idx>>), pa.processed,
                                Len(pa.articles))
    IN  IF answer.status = "success"
        THEN [pa EXCEPT !.phase = "loop", !.out[pa.idx] = Extracted(answer),
                        !.success_count =
                            IF Extracted(answer).wc_status = "success" THEN @ + 1 ELSE @,
                        !.retry_status = "", !.log = ended, !.idx = @ + 1]
        ELSE [pa EXCEPT !.phase = "loop",
                        !.out[pa.idx] = NotFetched("manual_" \o answer.status),
                        !.retry_status = "", !.log = ended, !.idx = @ + 1]

\* no second fetch: the status of the first fetch is recorded
NoRetry ==
    [pa EXCEPT !.phase = "loop", !.out[pa.idx] = NotFetched(pa.retry_status),
               !.retry_status = "",
               !.log = EndOfIteration(pa.log, pa.processed, Len(pa.articles)),
               !.idx = @ + 1]

\* stdin is a terminal: input() returns when the operator presses Enter, or
\* raises EOFError
ManualInput ==
    /\ pa.phase = "manual" /\ pa.isatty
    /\ IF pa.eof
       THEN pa' = NoRetry
       ELSE \E secs \in OperatorSeconds :
               pa' = RetryFetch(Append(pa.log, <<"input", secs>>))
    /\ UNCHANGED <<dt, wc, sc, ol>>

\* stdin is no terminal: time.sleep(wait_seconds) when it is positive
ManualWait ==
    /\ pa.phase = "manual" /\ ~pa.isatty
    /\ IF pa.manual_wait_seconds > 0
       THEN pa' = RetryFetch(Append(pa.log, <<"sleep", pa.manual_wait_seconds>>))
       ELSE pa' = NoRetry
    /\ UNCHANGED <<dt, wc, sc, ol>>

\* return articles
ReturnArticles ==
    /\ pa.phase = "loop" /\ pa.idx > Len(pa.articles)
    /\ pa' = [pa EXCEPT !.phase = "returned"]
    /\ UNCHANGED <<dt, wc, sc, ol>>

NextBatch ==
    SkipNoUrl \/ RaiseOnUrl \/ FirstFetch \/ ManualInput \/ ManualWait \/ ReturnArticles

SpecBatch == InitBatch /\ [][NextBatch]_vars

\* the seconds that pass from the event at position a of the log to the
\* event at position b
Elapsed(log, a, b) ==
    SumSeq([k \in 1..(b - a - 1) |->
               IF log[a + k][1] \in {"sleep", "input"} THEN log[a + k][2] ELSE 0])

\* C12 as stated: the fetches of a run are issued one after the other, and
\* between any two consecutive fetch requests, the second request of the
\* same article included, at least the configured delay passes.
C12_DelayBetweenFetches ==
    pa.phase # "idle" =>
        \A a, b \in 1..Len(pa.log) :
            (/\ a < b
             /\ pa.log[a][1] = "fetch" /\ pa.log[b][1] = "fetch"
             /\ \A k \in (a + 1)..(b - 1) : pa.log[k][1] # "fetch")
                => Elapsed(pa.log, a, b) >= delay

\* C13 as stated: whatever the fetch or extraction outcome of an article
\* is, a process_articles run over articles that each have a URL or none
\* does not abort, and when it is over every article of the batch has its
\* own result and status.
C13_RunNeverAborts ==
    (/\ pa.phase # "idle"
     /\ \A i \in 1..Len(pa.articles) : ArticleKinds[pa.articles[i]].url # NaNUrl)
        => /\ pa.phase # "raised"
           /\ pa.phase = "returned" =>
                 \A i \in 1..Len(pa.articles) :
                    pa.out[i].date_status # "" /\ pa.out[i].wc_status # ""

\* C14 as stated: for every processed article that has a URL the recorded
\* date status is one of success, no_date_found, timeout, request_error,
\* error, the recorded word-count status is one of success, no_text_found,
\* timeout, request_error, error, and a resolved date is recorded with
\* status success.
C14_StatusSets ==
    pa.phase # "idle" =>
        \A i \in 1..Len(pa.articles) :
            (pa.out[i] # Untouched /\ pa.out[i].date_status # "no_url") =>
                /\ pa.out[i].date_status \in
                      {"success", "no_date_found", "timeout", "request_error", "error"}
                /\ pa.out[i].wc_status \in
                      {"success", "no_text_found", "timeout", "request_error", "error"}
                /\ pa.out[i].pub_date # None => pa.out[i].date_status = "success"

\* the positions of the log at which article i is requested
FetchesOf(i) == {k \in 1..Len(pa.log) : pa.log[k] = <<"fetch", i>>}

HasUrl(article) == article.url \notin {Url("", FALSE), NaNUrl}

\* C18 as stated: each article is fetched at most twice; a second fetch
\* happens only with manual browser retry enabled, after a first fetch that
\* ended with http_<code>, request_error or timeout, and directly after the
\* operator's input or a positive wait; with manual retry disabled the run
\* never waits for input and, when it is over, every article with a URL was
\* fetched exactly once.
C18_FetchedAtMostTwice ==
    pa.phase # "idle" =>
        /\ \A i \in 1..Len(pa.articles) :
              /\ Cardinality(FetchesOf(i)) <= 2
              /\ Cardinality(FetchesOf(i)) = 2 =>
                    /\ pa.manual_browser_retry
                    /\ should_attempt_manual_retry(ArticleKinds[pa.articles[i]].first.status)
                    /\ \E k \in FetchesOf(i) :
                          /\ k > 1
                          /\ \/ pa.log[k - 1][1] = "input"
                             \/ pa.log[k - 1][1] = "sleep" /\ pa.log[k - 1][2] > 0
                                  /\ pa.log[k - 1][2] = pa.manual_wait_seconds
        /\ ~pa.manual_browser_retry =>
              /\ pa.phase # "manual"
              /\ \A k \in 1..Len(pa.log) : pa.log[k][1] # "input"
              /\ pa.phase \in {"returned", "raised"} =>
                    \A i \in 1..Len(pa.articles) :
                        HasUrl(ArticleKinds[pa.articles[i]]) =>
                            Cardinality(FetchesOf(i)) = 1

\* C15 as stated: date resolution of a fetched document ends without an
\* exception with a calendar date written YYYY-MM-DD or with no date; when
\* no strategy yields a parseable date the result is no date with status
\* no_date_found, and no date is returned with no other status.
C15_IsoDateOrAbsent ==
    dt.phase = "done" =>
        /\ dt.date = None \/ ValidDate(dt.date[1], dt.date[2], dt.date[3])
        /\ (\A k \in 1..5 : StrategyYields(dt)[k] = None) =>
              dt.date = None /\ dt.status = "no_date_found"
        /\ dt.date = None => dt.status = "no_date_found"

\* C16: word-count estimation on a fetched page returns status success
\* exactly when it returns a count, and the count is then at least 1; when
\* no candidate text contains a word, no count is returned and the status
\* is no_text_found.
C16_SuccessIffCount ==
    wc.phase = "done" =>
        /\ wc.status = "success" <=> wc.count # NoCount
        /\ wc.count # NoCount => wc.count >= 1
        /\ wc.status \in {"success", "no_text_found"}
        /\ ScoredOfPage = <<>> => wc.count = NoCount /\ wc.status = "no_text_found"
        /\ ScoredOfPage # <<>> => wc.status = "success"

\* a page with an <article> and a <main> node that hold no word
C16_Witness ==
    /\ wc.phase = "done"
    /\ wc.html = {Item("article", 0), Item("main", 0)}
    /\ wc.count = NoCount /\ wc.status = "no_text_found"

(***************************************************************************)
(* The cascades on content that carries JSON-LD                            *)
(***************************************************************************)
\* a fetched document with a JSON-LD block, or a fetched page with a
\* JSON-LD text value
InitJsonLd ==
    \/ /\ dt \in {[phase |-> "fetched", doc |-> d, by |-> "", date |-> None, status |-> ""] :
                    d \in {x \in DateDocs : x.jsonld # <<>>}}
       /\ wc = Idle /\ sc = Idle /\ ol = Idle /\ pa = Idle
    \/ /\ wc \in {[phase |-> "fetched", html |-> p, soup |-> p, by |-> "",
                   count |-> NoCount, status |-> "", method |-> "",
                   first |-> <<NoCount, "", "">>] :
                    p \in {x \in Pages : In(x, {"jsonld", "jsonldBad"}) # {}}}
       /\ dt = Idle /\ sc = Idle /\ ol = Idle /\ pa = Idle

NextJsonLd == ResolveDatefinder \/ ResolveTagger \/ CountTagger \/ CountFinder

SpecJsonLd == InitJsonLd /\ [][NextJsonLd]_vars

\* a block json.loads rejects, or one whose object lies in an array inside
\* an array
BadBlock(script) == script.f = "malformed" \/ script.n >= 2

RECURSIVE FirstYield(_)
FirstYield(yields) ==
    IF yields = <<>> THEN None
    ELSE IF Head(yields) # None THEN Head(yields)
    ELSE FirstYield(Tail(yields))

\* the page without its JSON-LD text values
WithoutJsonLd(page) == page \ In(page, {"jsonld", "jsonldBad"})

\* C17: a JSON-LD block that is malformed or unexpectedly shaped raises
\* out of no cascade.  Date resolution ends with a date or no_date_found;
\* when every block of the document is such a block the date is the one the
\* other strategies yield in their order, and when metadata and JSON-LD
\* yield nothing the later strategies produce the result.  Word counting
\* of a page with a JSON-LD text value that is no string ends with the
\* result the other candidates give, and never with the method jsonld.
C17_JsonLdErrorsContained ==
    /\ (dt.phase = "done" /\ \E k \in 1..Len(dt.doc.jsonld) : BadBlock(dt.doc.jsonld[k])) =>
          LET y == StrategyYields(dt)
          IN  /\ dt.status # "error"
              /\ dt.date = None <=> dt.status = "no_date_found"
              /\ (\A k \in 1..Len(dt.doc.jsonld) : BadBlock(dt.doc.jsonld[k])) =>
                    dt.date = FirstYield(<<y[1], y[3], y[4], y[5]>>)
              /\ (y[1] = None /\ y[2] = None) =>
                    dt.date = FirstYield(<<y[3], y[4], y[5]>>)
    /\ (wc.phase = "done" /\ In(wc.html, {"jsonldBad"}) # {}) =>
          LET rest == WithoutJsonLd(wc.html)
          IN  /\ wc.status \in {"success", "no_text_found"}
              /\ wc.method # "jsonld"
              /\ <<wc.count, wc.status, wc.method>> = SelectWordCount(Candidates(rest, rest))

\* datefinder has resolved a document whose first JSON-LD block is
\* malformed, by a later strategy
C17_Witness ==
    /\ dt.phase = "done" /\ dt.by = "datefinder"
    /\ dt.doc.jsonld[1].f = "malformed"
    /\ dt.doc.meta = <<>>
    /\ dt.date # None

\* a page with a JSON-LD text value that is no string and a word count
\* taken from another candidate
C17_WitnessCount ==
    /\ wc.phase = "done" /\ In(wc.html, {"jsonldBad"}) # {}
    /\ In(wc.html, {"jsonld"}) # {}
    /\ wc.status = "success"

\* C19 as stated: the word-count cascade leaves the fetched content as it
\* was, and applied again to the same raw text and parsed document it
\* returns the count, status and method of the first application.
C19_SameResultAgain ==
    wc.phase = "again" =>
        /\ wc.soup = wc.html
        /\ <<wc.count, wc.status, wc.method>> = wc.first


\* the subsections a label names
NamedBy(label) == {p \in 1..NumSubs : RefLabel(OutlineSubs[p]) = label}

C20_WitnessSingle ==
    /\ ol.phase = "loop" /\ ol.inserted >= 1 /\ ol.max_sections > 1
    /\ \E s \in 1..NumSubs :
          /\ Len(ol.lists[s]) > Len(ol.html[s])
          /\ ol.lists[s][Len(ol.lists[s])].xr = <<>>
          /\ \A t \in 1..NumSubs \ {s} :
                \A n \in 1..Len(ol.lists[t]) :
                   ol.lists[t][n].href # ol.lists[s][Len(ol.lists[s])].href

(***************************************************************************)
(* PART 7.  parse_date_string on its own                                   *)
(***************************************************************************)
\* the years, and the months and days, written in the strings
Years == {2023, 2024}
Smalls == {2, 3, 5, 12, 13, 25, 30, 31}

\* the date strings parse_date_string is given: every layout, the year in
\* the place the layout has for it, a month name for a month only
DateStrings ==
    {Raw(k, y, m, d) : k \in {"ymd", "ymdT", "ymdTZ", "ymdTfZ", "ymdToff", "yslash", "embedded"},
                       y \in Years, m \in Smalls, d \in Smalls}
    \cup {Raw("slash", a, b, y) : a \in Smalls, b \in Smalls, y \in Years}
    \cup {Raw(k, m, d, y) : k \in {"Bdy,", "bdy,", "Bdy", "bdy", "pubBdy,"},
                            m \in Smalls \cap 1..12, d \in Smalls, y \in Years}
    \cup {Raw(k, d, m, y) : k \in {"dBy", "dby"},
                            d \in Smalls, m \in Smalls \cap 1..12, y \in Years}
    \cup {Junk, Empty}

InitParse ==
    /\ dt \in {[phase |-> "string", s |-> s, by |-> "", date |-> None] : s \in DateStrings}
    /\ wc = Idle /\ sc = Idle /\ ol = Idle /\ pa = Idle

\* datefinder.parse_date_string(date_str)
ParseDatefinder ==
    /\ dt.phase = "string"
    /\ dt' = [dt EXCEPT !.phase = "parsed", !.by = "datefinder",
                        !.date = parse_date_string(dt.s)]
    /\ UNCHANGED <<wc, sc, ol, pa>>

\* raindroptagger.parse_date_string(date_str): the same code
ParseTagger ==
    /\ dt.phase = "string"
    /\ dt' = [dt EXCEPT !.phase = "parsed", !.by = "tagger",
                        !.date = parse_date_string(dt.s)]
    /\ UNCHANGED <<wc, sc, ol, pa>>

NextParse == ParseDatefinder \/ ParseTagger

SpecParse == InitParse /\ [][NextParse]_vars

\* C21: parse_date_string gives 2024-03-05 for "March 5, 2024", for
\* "2024-03-05" and for "2024-03-05T10:00:00.000Z"; its result is that of
\* the first format of the list, in list order, that parses the string; a
\* slash date is read month-first whenever that reading is a date, and
\* day-first only when the month-first reading is none.
C21_FormatsInListOrder ==
    dt.phase = "parsed" =>
        /\ dt.s \in {Raw("Bdy,", 3, 5, 2024), Raw("ymd", 2024, 3, 5), Raw("ymdTfZ", 2024, 3, 5)}
              => dt.date = <<2024, 3, 5>>
        /\ \A i \in 1..Len(formats) :
              /\ StrpTime(formats[i], dt.s) # None
              /\ \A j \in 1..(i - 1) : StrpTime(formats[j], dt.s) = None
              => dt.date = StrpTime(formats[i], dt.s)
        /\ dt.s.k = "slash" =>
              /\ Ymd(dt.s.c, dt.s.a, dt.s.b) # None => dt.date = Ymd(dt.s.c, dt.s.a, dt.s.b)
              /\ Ymd(dt.s.c, dt.s.a, dt.s.b) = None => dt.date = Ymd(dt.s.c, dt.s.b, dt.s.a)

\* "03/05/2024", a date in both readings, was parsed: to March 5
C21_Witness ==
    /\ dt.phase = "parsed" /\ dt.s = Raw("slash", 3, 5, 2024)
    /\ dt.date = <<2024, 3, 5>>

\* "25/12/2024", no date month-first, was parsed day-first
C21_WitnessDayFirst ==
    /\ dt.phase = "parsed" /\ dt.s = Raw("slash", 25, 12, 2024)
    /\ dt.date = <<2024, 12, 25>>

(***************************************************************************)
(* PART 8.  tokenize on the characters of a text                           *)
(*                                                                         *)
(* A text is a sequence of characters of Alphabet.  The tokenize of part 4 *)
(* is this function seen on the words; here the regular expression is      *)
(* followed character by character.                                        *)
(***************************************************************************)
Alphabet == {"t", "h", "e", "A", "-", "'", " "}

MaxChars == 4

\* the texts of up to MaxChars characters
Texts == UNION {[1..n -> Alphabet] : n \in 0..MaxChars}

\* str.lower on one character
Lower(c) == IF c = "A" THEN "a" ELSE c

\* [a-z0-9]
IsAlnum(c) == c \in {"t", "h", "e", "a"}

\* [a-z0-9\-']
IsInner(c) == IsAlnum(c) \/ c \in {"-", "'"}

\* the length of the longest beginning of s made of the class [a-z0-9\-']
RECURSIVE RunLength(_)
RunLength(s) ==
    IF s # <<>> /\ IsInner(Head(s)) THEN 1 + RunLength(Tail(s)) ELSE 0

\* re.findall(r"[a-z0-9][a-z0-9\-']+", s): the matches from left to right,
\* each as long as it can be, the search going on behind a match
RECURSIVE FindAll(_)
FindAll(s) ==
    IF Len(s) < 2 THEN <<>>
    ELSE IF IsAlnum(s[1]) /\ IsInner(s[2])
         THEN LET n == 1 + RunLength(Tail(s))
              IN  <<SubSeq(s, 1, n)>> \o FindAll(SubSeq(s, n + 1, Len(s)))
    ELSE FindAll(Tail(s))

\* STOPWORDS, its words of the alphabet spelled out
STOPWORDS_SPELLED == {<<"t", "h", "e">>, <<"a", "t">>, <<"t", "h", "a", "t">>}

\* tokenize(text), on characters
tokenize_chars(text) ==
    LET words == FindAll([k \in 1..Len(text) |-> Lower(text[k])])
    IN  SelectSeq(words, LAMBDA w : Len(w) > 2 /\ w \notin STOPWORDS_SPELLED)

InitTokenize ==
    /\ sc \in {[phase |-> "text", text |-> t, tokens |-> <<>>] : t \in Texts}
    /\ dt = Idle /\ wc = Idle /\ ol = Idle /\ pa = Idle

\* tokenize(text)
Tokenize ==
    /\ sc.phase = "text"
    /\ sc' = [sc EXCEPT !.phase = "tokens", !.tokens = tokenize_chars(sc.text)]
    /\ UNCHANGED <<dt, wc, ol, pa>>

NextTokenize == Tokenize

SpecTokenize == InitTokenize /\ [][NextTokenize]_vars

\* C22 as stated: every token tokenize returns is lower-case, longer than 2
\* characters, no stop word, and made of alphanumeric characters with
\* hyphens and apostrophes in interior positions only, never first or last.
C22_TokenShape ==
    sc.phase = "tokens" =>
        \A i \in 1..Len(sc.tokens) :
           LET w == sc.tokens[i]
           IN  /\ \A k \in 1..Len(w) : Lower(w[k]) = w[k] /\ IsInner(w[k])
               /\ Len(w) > 2
               /\ w \notin STOPWORDS_SPELLED
               /\ IsAlnum(w[1]) /\ IsAlnum(w[Len(w)])

(***************************************************************************)
(* PART 9.  The free-text scan on its own                                  *)
(*                                                                         *)
(* The visible text is the sequence of its date-like pieces, as            *)
(* VisibleText gives it for a document.                                    *)
(***************************************************************************)
R_Published == Raw("pubBdy,", 6, 2, 2020)   \* "Published: June 2, 2020"

MaxPieces == 3

\* the visible texts of up to MaxPieces date-like pieces
VisibleTexts == SeqsUpTo({R_Iso, R_Slash, R_Prose, R_Published, R_NoDay, Junk}, MaxPieces)

InitScan ==
    /\ dt \in {[phase |-> "text", text |-> t, by |-> "", date |-> None] : t \in VisibleTexts}
    /\ wc = Idle /\ sc = Idle /\ ol = Idle /\ pa = Idle

\* datefinder.find_date_in_text_patterns on the visible text
ScanDatefinder ==
    /\ dt.phase = "text"
    /\ dt' = [dt EXCEPT !.phase = "scanned", !.by = "datefinder",
                        !.date = TextPatterns(patterns, dt.text)]
    /\ UNCHANGED <<wc, sc, ol, pa>>

\* the raw text patterns of raindroptagger.get_pub_date_from_soup
ScanTagger ==
    /\ dt.phase = "text"
    /\ dt' = [dt EXCEPT !.phase = "scanned", !.by = "tagger",
                        !.date = TextPatterns(patternsTagger, dt.text)]
    /\ UNCHANGED <<wc, sc, ol, pa>>

NextScan == ScanDatefinder \/ ScanTagger

SpecScan == InitScan /\ [][NextScan]_vars

\* C23 as stated: the free-text scan returns the first parseable match of
\* the earliest pattern, in the order ISO date, slash date, prose date, that
\* has one; a text with an ISO date and a slash date resolves to the ISO
\* date.
C23_IsoBeforeSlash ==
    dt.phase = "scanned" =>
        /\ dt.date = TextPatterns(<<"iso", "slash", "prose">>, dt.text)
        /\ (\E i, j \in 1..Len(dt.text) : dt.text[i] = R_Iso /\ dt.text[j] = R_Slash)
              => dt.date = <<2021, 11, 30>>

RECURSIVE FirstDatedObject(_)
\* the date of the first JSON-LD block, in document order, whose object has
\* a parseable date field, through however many arrays
FirstDatedObject(scripts) ==
    IF scripts = <<>> THEN None
    ELSE LET s == Head(scripts)
             date == IF s.f \in date_fields THEN parse_date_string(s.r) ELSE None
         IN  IF date # None THEN date ELSE FirstDatedObject(Tail(scripts))

\* C24 as stated, for objects of one field: the JSON-LD strategy finds a
\* linked-data object carrying datePublished, publishDate, dateCreated or
\* uploadDate at any array nesting depth; in a document whose metadata
\* yields no date and whose JSON-LD blocks all parse as JSON, the resolved
\* date is that of the first block with a parseable date field whenever
\* there is one.
C24_ArraysUnwrappedRecursively ==
    (/\ dt.phase = "done"
     /\ find_date_in_meta_tags(dt.doc.meta) = None
     /\ \A k \in 1..Len(dt.doc.jsonld) : dt.doc.jsonld[k].f # "malformed"
     /\ FirstDatedObject(dt.doc.jsonld) # None)
        => dt.date = FirstDatedObject(dt.doc.jsonld)

\* C25 as stated: the count compared with 120 and reported for article_tag
\* is the word count of the raw text of the article container as fetched;
\* when that raw text has at least 120 words and no method before
\* article_tag in the preference order has, the result is its count with
\* the method article_tag, whatever the boilerplate-stripped text counts.
C25_RawArticleCount ==
    (/\ wc.phase = "done"
     /\ In(wc.html, ArticleSrcs) # {}
     /\ Words(wc.html, ArticleSrcs) >= 120
     /\ \A k \in 1..4 : ~Reaches(ScoredOfPage, preferred_methods[k]))
        => /\ wc.status = "success"
           /\ wc.method = "article_tag"
           /\ wc.count = Words(wc.html, ArticleSrcs)

(***************************************************************************)
(* PART 10.  add_outl_articles.py: insertion in date order                 *)
(*                                                                         *)
(* The run works on the article list of each subsection of the outline. A  *)
(* new article is [title, url, pub_date, wordcount, sub_id] as load_csv    *)
(* returns it: pub_date is the text behind "pub:" in the note (a text of   *)
(* the form YYYY-MM-DD, or Empty for None), sub_id the index of the        *)
(* subsection its _outl: tag names, 0 for an id the outline does not have. *)
(***************************************************************************)
\* date.fromisoformat(s), None for ValueError, TypeError
parse_date(s) == IF s.k = "ymd" THEN Ymd(s.a, s.b, s.c) ELSE None

\* the date of the badge of an existing entry
li_date(li) == parse_date(li.date)

\* new_date > ex_date on datetime.date
DateAfter(a, b) ==
    \/ a[1] > b[1]
    \/ a[1] = b[1] /\ a[2] > b[2]
    \/ a[1] = b[1] /\ a[2] = b[2] /\ a[3] > b[3]

make_li(title, url, pub_date, wordcount) == Entry(url, title, pub_date, wordcount, <<>>)

R_Old == Raw("ymd", 2022, 1, 9)
R_Mid == Raw("ymd", 2023, 7, 4)
R_New == Raw("ymd", 2024, 3, 5)

MaxOld == 2
MaxNew == 2

\* the entries a subsection list holds before the run
OldEntries ==
    { make_li({"llm"}, "u1", R_Mid, 900), make_li({"tool"}, "u2", R_Old, NoCount),
      make_li({"jazz"}, "u3", Empty, NoCount) }

\* the lists of the subsections before the run: the first with up to
\* MaxOld entries, in any order, of pairwise different URLs
OldLists ==
    {[s \in 1..NumSubs |-> IF s = 1 THEN l ELSE <<>>] :
        l \in {x \in SeqsUpTo(OldEntries, MaxOld) :
                 \A a, b \in 1..Len(x) : a # b => x[a] # x[b]}}

NewArticle(url, pub_date, sub_id) ==
    [title |-> {"llm"}, url |-> url, pub_date |-> pub_date, wordcount |-> NoCount,
     sub_id |-> sub_id]

\* the articles load_csv returns
NewArticles ==
    {NewArticle(u, d, 1) : u \in {"u1", "u4"}, d \in {R_Old, R_Mid, R_New, Empty}}
    \cup {NewArticle("u5", R_NoDay, 1), NewArticle("u5", R_Mid, 2), NewArticle("u5", R_New, 0)}

InitOutl ==
    /\ ol \in {[phase |-> "outl", html |-> ls, lists |-> ls, new_articles |-> arts,
                pos |-> 1, added |-> 0, skipped |-> 0, counts |-> refresh_counts(ls)] :
                 ls \in OldLists, arts \in SeqsUpTo(NewArticles, MaxNew)}
    /\ dt = Idle /\ wc = Idle /\ sc = Idle /\ pa = Idle

InOutlLoop == ol.phase = "outl" /\ ol.pos <= Len(ol.new_articles)

\* the same, before the first entry that is undated or not newer
InsertPositionNotStrict(ul, new_date) ==
    LET hits == {k \in 1..Len(ul) :
                    li_date(ul[k]) = None \/ ~DateAfter(li_date(ul[k]), new_date)}
    IN  IF new_date = None \/ hits = {} THEN Len(ul) + 1
        ELSE CHOOSE k \in hits : \A j \in hits : k <= j

\* the place of the new entry: that of the first existing_li with
\* ex_date is None or new_date > ex_date, behind the last entry when there
\* is none or new_date is None
InsertPosition(ul, new_date) ==
    LET hits == {k \in 1..Len(ul) :
                    li_date(ul[k]) = None \/ DateAfter(new_date, li_date(ul[k]))}
    IN  IF new_date = None \/ hits = {} THEN Len(ul) + 1
        ELSE CHOOSE k \in hits : \A j \in hits : k <= j

\* existing_li.insert_before(new_li), or ul.append(new_li)
InsertAt(ul, k, li) == SubSeq(ul, 1, k - 1) \o <<li>> \o SubSeq(ul, k, Len(ul))

\* soup.find('details', id=sub_id) finds nothing: skipped
SkipNoSubsection ==
    /\ InOutlLoop
    /\ ol.new_articles[ol.pos].sub_id \notin 1..NumSubs
    /\ ol' = [ol EXCEPT !.pos = @ + 1, !.skipped = @ + 1]
    /\ UNCHANGED <<dt, wc, sc, pa>>

\* the URL is already in the list of the subsection: skipped
SkipPresent ==
    /\ InOutlLoop
    /\ LET art == ol.new_articles[ol.pos]
       IN  /\ art.sub_id \in 1..NumSubs
           /\ \E k \in 1..Len(ol.lists[art.sub_id]) : ol.lists[art.sub_id][k].href = art.url
           /\ ol' = [ol EXCEPT !.pos = @ + 1, !.skipped = @ + 1]
    /\ UNCHANGED <<dt, wc, sc, pa>>

\* the new <li> is built and inserted
InsertArticle ==
    /\ InOutlLoop
    /\ LET art == ol.new_articles[ol.pos]
       IN  /\ art.sub_id \in 1..NumSubs
           /\ \A k \in 1..Len(ol.lists[art.sub_id]) : ol.lists[art.sub_id][k].href # art.url
           /\ LET ul == ol.lists[art.sub_id]
                  new_li == make_li(art.title, art.url, art.pub_date, art.wordcount)
                  new_date == parse_date(art.pub_date)
              IN  ol' = [ol EXCEPT !.pos = @ + 1, !.added = @ + 1,
                                   !.lists[art.sub_id] =
                                       InsertAt(ul, InsertPosition(ul, new_date), new_li)]
    /\ UNCHANGED <<dt, wc, sc, pa>>

\* after the loop: the counts are updated and the HTML is written
WriteHtml ==
    /\ ol.phase = "outl" /\ ol.pos > Len(ol.new_articles) /\ ol.new_articles # <<>>
    /\ ol' = [ol EXCEPT !.phase = "saved", !.counts = refresh_counts(ol.lists)]
    /\ UNCHANGED <<dt, wc, sc, pa>>

NextOutl == SkipNoSubsection \/ SkipPresent \/ InsertArticle \/ WriteHtml

SpecOutl == InitOutl /\ [][NextOutl]_vars

\* the list is in descending date order, undated entries last
DescendingUndatedLast(ul) ==
    \A a, b \in 1..Len(ul) :
       a < b => \/ li_date(ul[b]) = None
                \/ li_date(ul[a]) # None /\ ~DateAfter(li_date(ul[b]), li_date(ul[a]))

\* the entries before place k are dated and not older than d, the entry at
\* place k (if any) is undated or older than d
FirstUndatedOrOlder(ul, k, d) ==
    /\ \A j \in 1..(k - 1) : li_date(ul[j]) # None /\ ~DateAfter(d, li_date(ul[j]))
    /\ k <= Len(ul) => li_date(ul[k]) = None \/ DateAfter(d, li_date(ul[k]))

\* C26: every insertion of add_outl_articles puts a dated article right
\* before the first entry of the list that is undated or strictly older
\* (behind the last entry when there is none) and an undated article
\* behind the last entry, nothing else in the list changing; and a list in
\* descending date order with its undated entries last before the run is
\* so after every insertion.
C26_InsertedInDateOrder ==
    /\ [][ol.phase = "outl" /\ ol'.phase = "outl" /\ ol'.added = ol.added + 1 =>
            LET art == ol.new_articles[ol.pos]
                old == ol.lists[art.sub_id]
                new == ol'.lists[art.sub_id]
                d == parse_date(art.pub_date)
            IN  /\ Len(new) = Len(old) + 1
                /\ \A s \in 1..NumSubs \ {art.sub_id} : ol'.lists[s] = ol.lists[s]
                /\ \E k \in 1..Len(new) :
                      /\ new = InsertAt(old, k, new[k])
                      /\ new[k].href = art.url /\ new[k].date = art.pub_date
                      /\ IF d = None THEN k = Len(new) ELSE FirstUndatedOrOlder(old, k, d)]_vars
    /\ [](ol.phase \in {"outl", "saved"} =>
            \A s \in 1..NumSubs :
               DescendingUndatedLast(ol.html[s]) => DescendingUndatedLast(ol.lists[s]))

\* a run has put an article of the date of the first entry behind that
\* entry and before the older one, and an undated article behind the last
C26_Witness ==
    /\ ol.phase = "saved" /\ ol.added = 2
    /\ Len(ol.html[1]) = 2 /\ Len(ol.lists[1]) = 4
    /\ ol.lists[1][1].href = "u1" /\ ol.lists[1][1].date = R_Mid
    /\ ol.lists[1][2].href = "u4" /\ ol.lists[1][2].date = R_Mid
    /\ ol.lists[1][3].href = "u2" /\ ol.lists[1][3].date = R_Old
    /\ ol.lists[1][4].href = "u5" /\ li_date(ol.lists[1][4]) = None

\* the subsections whose list has one entry more after the step
Grown == {s \in 1..NumSubs : Len(ol'.lists[s]) = Len(ol.lists[s]) + 1}

\* C27 as stated: a row whose fetch fails is still classified and inserted,
\* every fetched_* field of its signals is empty, and the subsections it is
\* put in are those chosen from the CSV fields title, tags, note and
\* excerpt alone.
C27_FailedFetchUsesCsvOnly ==
    [][(/\ InLoop /\ ol.fetch_urls
        /\ RowTitle(RowKinds[ol.csv[ol.pos]]) # {}
        /\ RowUrl(RowKinds[ol.csv[ol.pos]]).u # ""
        /\ RowUrl(RowKinds[ol.csv[ol.pos]]) \notin ol.existing_urls
        /\ ~fetch_article_signals(RowKinds[ol.csv[ol.pos]]).fetch_ok)
        => LET row == RowKinds[ol.csv[ol.pos]]
               fetched == fetch_article_signals(row)
           IN  /\ ol'.inserted = ol.inserted + 1
               /\ ol'.fetch_fail_count = ol.fetch_fail_count + 1
               /\ fetched = NoPage
               /\ Grown = Range(best_subsections(ol.profiles,
                                                 TokenSets(ArticleSignals(row, NoPage)),
                                                 ol.max_sections))]_vars

\* C28: every subsection score is at least 0; subsections of equal score
\* are ranked in profile order: the first chosen subsection is the earliest
\* profile among those with the highest score, chosen subsections of equal
\* score follow each other in profile order, and with every score 0 the
\* first profile alone is chosen.
C28_StableRanking ==
    sc.phase = "placed" =>
        LET ch == sc.chosen
        IN  /\ \A i \in 1..Len(sc.profiles) : sc.scores[i] >= 0
            /\ ch # <<>>
            /\ sc.scores[ch[1]] = TopScore
            /\ \A j \in 1..(ch[1] - 1) : sc.scores[j] < TopScore
            /\ \A k, l \in 1..Len(ch) :
                  (k < l /\ sc.scores[ch[k]] = sc.scores[ch[l]]) => ch[k] < ch[l]
            /\ \A k \in 2..Len(ch) :
                  \A j \in 1..(ch[k] - 1) :
                     sc.scores[j] = sc.scores[ch[k]] => j \in Range(SubSeq(ch, 1, k - 1))
            /\ (\A i \in 1..Len(sc.profiles) : sc.scores[i] = 0) => ch = <<1>>

\* the second and the third profile score the same, above the first: the
\* second is the primary placement, the third follows it
C28_Witness ==
    /\ sc.phase = "placed" /\ Len(sc.profiles) = 3
    /\ sc.scores[2] = sc.scores[3] /\ sc.scores[1] < sc.scores[2]
    /\ sc.chosen = <<2, 3>>

\* the subsections whose list holds an entry linking to url
HoldersOf(lists, url) ==
    {s \in 1..NumSubs : \E k \in 1..Len(lists[s]) : lists[s][k].href = url}

\* C29: during an update_outline run the profiles stay those built from
\* the outline as it was read; every row gone through whose URL is neither
\* in that outline nor the URL of another row of the CSV stands in exactly
\* the subsections chosen from its own signals and the profiles of the
\* initial outline, wherever the row stands in the CSV and whatever was
\* inserted before it.
C29_ProfilesBuiltOnce ==
    ol.phase \in {"loop", "written", "dry"} =>
        /\ ol.profiles = build_profiles(ol.html)
        /\ \A p \in 1..Len(ol.csv) :
              LET row == RowKinds[ol.csv[p]]
                  url == RowUrl(row)
                  fetched == IF ol.fetch_urls THEN fetch_article_signals(row) ELSE NoPage
              IN  (/\ p < ol.pos
                   /\ RowTitle(row) # {} /\ url.u # ""
                   /\ url \notin existing_urls(ol.html)
                   /\ \A q \in 1..Len(ol.csv) : q # p => RowUrl(RowKinds[ol.csv[q]]) # url)
                  => HoldersOf(ol.lists, url) =
                        Range(best_subsections(build_profiles(ol.html),
                                               TokenSets(ArticleSignals(row, fetched)),
                                               ol.max_sections))

\* two rows of different URLs were inserted, the second into a subsection
\* the first had been put in, and the profiles are those of the outline as
\* read, which do not count the title of the first
C29_Witness ==
    /\ ol.phase = "loop" /\ ol.inserted = 2
    /\ ol.profiles = build_profiles(ol.html)
    /\ ol.profiles # build_profiles(ol.lists)
    /\ \E s \in 1..NumSubs : Len(ol.lists[s]) >= Len(ol.html[s]) + 2

\* the status of the last request made for article i of the batch
LastFetchStatus(i) ==
    IF Cardinality(FetchesOf(i)) = 2
    THEN ArticleKinds[pa.articles[i]].retry.status
    ELSE ArticleKinds[pa.articles[i]].first.status

\* C30 as stated: after process_articles returns, every article record has
\* pub_date, date_status, wordcount, wc_status and wc_method set; pub_date
\* and wordcount are both absent whenever the article has no URL or its
\* last fetch did not succeed (a skipped or failed manual retry included),
\* and wordcount is present exactly when wc_status is success.
C30_RecordsComplete ==
    pa.phase = "returned" =>
        \A i \in 1..Len(pa.articles) :
            /\ pa.out[i] # Untouched
            /\ pa.out[i].date_status # "" /\ pa.out[i].wc_status # ""
            /\ (~HasUrl(ArticleKinds[pa.articles[i]]) \/ LastFetchStatus(i) # "success")
                  => pa.out[i].pub_date = None /\ pa.out[i].wordcount = NoCount
            /\ pa.out[i].wordcount # NoCount <=> pa.out[i].wc_status = "success"

\* a returned batch of an article served to the second request, with a date
\* and a word count, and an article whose manual retry failed
C30_Witness ==
    /\ pa.phase = "returned" /\ Len(pa.articles) = 2
    /\ \E i, j \in 1..2 :
          /\ Cardinality(FetchesOf(i)) = 2 /\ LastFetchStatus(i) = "success"
          /\ pa.out[i].wordcount # NoCount /\ pa.out[i].pub_date # None
          /\ Cardinality(FetchesOf(j)) = 2 /\ LastFetchStatus(j) # "success"
          /\ pa.out[j] = NotFetched("manual_request_error")

\* a returned batch of a paragraph without hyperlink and an article whose
\* manual retry was skipped
C30_WitnessSkipped ==
    /\ pa.phase = "returned" /\ Len(pa.articles) = 2
    /\ \E i, j \in 1..2 :
          /\ ~HasUrl(ArticleKinds[pa.articles[i]])
          /\ pa.out[i].date_status = "no_url"
          /\ pa.manual_browser_retry
          /\ Cardinality(FetchesOf(j)) = 1
          /\ should_attempt_manual_retry(LastFetchStatus(j))
          /\ pa.out[j] = NotFetched(LastFetchStatus(j))

=============================================================================
